---- MODULE Spec2Model ----
(***************************************************************************)
(* A model of the Terraform agent (profemzy/dzp):                          *)
(*   - ClaudeProcessor: process_query, _handle_tool_use, the streaming     *)
(*     variant, _execute_tool (src/src/ai/claude_processor.py)             *)
(*   - TerraformAgent: the direct terraform command path                   *)
(*     (src/src/core/agent.py)                                             *)
(*   - HumanInTheLoop / ToolInterceptor (src/src/core/human_in_the_loop.py)*)
(*   - TaskEngine: create_task, execute_task, cancel_task                  *)
(*     (src/src/core/task_engine.py)                                       *)
(*   - TerraformCLI._run_command (src/src/terraform/cli.py)                *)
(* Each subsystem has its own specification over the shared variables.     *)
(***************************************************************************)
EXTENDS Integers, Sequences, FiniteSets, TLC

\* ----------------------------------------------------------------- bounds
\* process_query calls started in one behaviour
MaxQueries == 2
\* nesting of _handle_tool_use explored (the code has no limit of its own)
MaxDepth == 2
\* content blocks in one model response
MaxBlocks == 2
\* tool-use responses the model service gives in one behaviour
MaxRounds == 2

VARIABLES
    \* ---- ClaudeProcessor
    callers,               \* the coroutines calling process_query on one instance
    conversation_history,  \* self.conversation_history
    pc,                    \* where each process_query call is suspended
    blocks,                \* the response content / tool_uses being handled
    idx,                   \* the block whose handler is running
    tool_results,          \* the local list tool_results
    depth,                 \* nesting of _handle_tool_use
    ret,                   \* what the last process_query returned
    lastSent,              \* roles of the messages of the latest model request
    queries,               \* process_query calls started
    rounds,                \* tool-use responses received
    registered,            \* the names in self.tool_handlers
    dispatch,              \* what _execute_tool decided for the running block
    calls,                 \* what each process_query call has done so far
    tokens,                \* the four total_*_tokens counters
    billed,                \* the usage the model service has reported so far
    usages,                \* the usage values the model service reports
    streams,               \* which streams the model service may send
    answer,                \* the text the last process_query returned
    terraform_context_cache, \* self.terraform_context_cache ("None" is None)
    file,                  \* the file export_conversation writes
    mem,                   \* the latest export, import or clear
    \* ---- TerraformAgent / TaskEngine wrappers
    lastCli,               \* the latest command handed to TerraformCLI
    \* ---- HumanInTheLoop / ToolInterceptor
    human_in_the_loop,     \* config.human_in_the_loop
    max_requests,          \* requests explored: MaxRequests, or one more
    requests,              \* the approval_request dicts ever created, by identity
    pending_approvals,     \* self.pending_approvals: approval id -> request
    approval_history,      \* self.approval_history: requests, by identity
    icall,                 \* each intercept_tool_execution call
    \* ---- TaskEngine
    tasks,                 \* self.tasks, in creation order
    executing,             \* tasks whose execute_task has notified RUNNING
    task_callbacks,        \* self.task_callbacks, in registration order
    last_op,               \* the latest TaskEngine operation and its effects
    project_cache,         \* self._project_cache: -1 is None, else the snapshot
    cache_timestamp,       \* self._cache_timestamp: -1 is None
    now,                   \* time.time(), in seconds
    disk,                  \* the version of the project files on disk
    gpd,                   \* the latest get_project_data call
    \* ---- TerraformCLI._run_command
    cmd_pc,                \* where _run_command is
    child,                 \* the child process
    timeout,               \* the timeout argument, in ticks
    elapsed,               \* ticks since the wait began
    cause,                 \* why the wait ended
    result,                \* the TerraformResult returned
    commands,              \* _run_command calls started
    \* ---- BatchProcessor
    batches,               \* the batch dicts created, in creation order
    workers,               \* the _process_batch tasks, one per create_batch
    \* ---- functions called on their own
    probe                  \* the latest call of a function: its arguments, its value

claudeVars == <<callers, conversation_history, pc, blocks, idx, tool_results,
                depth, ret, lastSent, queries, rounds, registered, dispatch,
                calls, tokens, billed, usages, streams, answer,
                terraform_context_cache, file, mem>>
usageVars == <<tokens, billed>>
memVars == <<terraform_context_cache, file, mem>>
agentVars == <<lastCli>>
hilVars == <<human_in_the_loop, max_requests, requests, pending_approvals, approval_history,
             icall>>
taskVars == <<tasks, executing, task_callbacks, last_op>>
cacheVars == <<project_cache, cache_timestamp, now, disk, gpd>>
cliVars == <<cmd_pc, child, timeout, elapsed, cause, result, commands>>
batchVars == <<batches, workers>>
vars == <<claudeVars, agentVars, hilVars, taskVars, cacheVars, cliVars,
          batchVars, probe>>
notClaude == <<hilVars, taskVars, cacheVars, cliVars, batchVars, probe>>
notHil == <<claudeVars, agentVars, taskVars, cacheVars, cliVars, batchVars,
            probe>>
notTask == <<claudeVars, agentVars, hilVars, cliVars, batchVars, probe>>
notCli == <<claudeVars, agentVars, hilVars, taskVars, cacheVars, batchVars,
            probe>>
notCache == <<claudeVars, agentVars, hilVars, taskVars, cliVars, batchVars,
              probe>>
notProbe == <<claudeVars, agentVars, hilVars, taskVars, cacheVars, cliVars,
              batchVars>>
notBatch == <<claudeVars, agentVars, hilVars, taskVars, cliVars, probe>>

\* ------------------------------------------------------------ text
\* Texts are strings; s[i..j] is SubSeq(s, i, j).

\* `t in s` for two texts
Contains(s, t) ==
    \E i \in 1..(Len(s) + 1) : \E j \in (i-1)..Len(s) : SubSeq(s, i, j) = t

UpperCase ==
    <<"A", "B", "C", "D", "E", "F", "G", "H", "I", "J", "K", "L", "M",
      "N", "O", "P", "Q", "R", "S", "T", "U", "V", "W", "X", "Y", "Z">>

LowerCase ==
    <<"a", "b", "c", "d", "e", "f", "g", "h", "i", "j", "k", "l", "m",
      "n", "o", "p", "q", "r", "s", "t", "u", "v", "w", "x", "y", "z">>

\* str.lower()
Lower(s) ==
    LET ch(c) == IF \E k \in 1..26 : UpperCase[k] = c
                 THEN LowerCase[CHOOSE k \in 1..26 : UpperCase[k] = c]
                 ELSE c
        F[i \in 0..Len(s)] ==
            IF i = 0 THEN "" ELSE F[i-1] \o ch(SubSeq(s, i, i))
    IN F[Len(s)]

\* text.split('\n')
Lines(s) ==
    LET breaks == {i \in 1..Len(s) : SubSeq(s, i, i) = "\n"}
        break(k) ==
            IF k = 0 THEN 0
            ELSE IF k > Cardinality(breaks) THEN Len(s) + 1
            ELSE CHOOSE i \in breaks :
                    Cardinality({j \in breaks : j <= i}) = k
    IN [k \in 1..(Cardinality(breaks) + 1) |->
            IF break(k - 1) + 1 > break(k) - 1 THEN ""
            ELSE SubSeq(s, break(k - 1) + 1, break(k) - 1)]

\* str.strip()
Strip(s) ==
    LET ink == {i \in 1..Len(s) : SubSeq(s, i, i) \notin {" ", "\t", "\r", "\n"}}
    IN IF ink = {} THEN ""
       ELSE SubSeq(s, CHOOSE i \in ink : \A j \in ink : i <= j,
                      CHOOSE i \in ink : \A j \in ink : i >= j)

Digits == <<"0", "1", "2", "3", "4", "5", "6", "7", "8", "9">>

IsDigit(c) == \E k \in 1..Len(Digits) : Digits[k] = c

\* int(s) for a text of digits
ToInt(s) ==
    LET F[i \in 0..Len(s)] ==
            IF i = 0 THEN 0
            ELSE 10 * F[i-1]
                 + (CHOOSE k \in 1..Len(Digits) : Digits[k] = SubSeq(s, i, i))
                 - 1
    IN F[Len(s)]

\* re.search(r'(\d+)' + suffix, line): the number of the leftmost match, -1
\* when there is no match
SearchNumber(line, suffix) ==
    LET ends == {j \in 1..Len(line) :
                    /\ IsDigit(SubSeq(line, j, j))
                    /\ j + Len(suffix) <= Len(line)
                    /\ SubSeq(line, j + 1, j + Len(suffix)) = suffix}
        matches == {m \in (1..Len(line)) \X ends :
                       /\ m[1] <= m[2]
                       /\ \A k \in m[1]..m[2] : IsDigit(SubSeq(line, k, k))}
    IN IF matches = {} THEN -1
       ELSE LET m == CHOOSE m \in matches : \A n \in matches : m[1] <= n[1]
            IN ToInt(SubSeq(line, m[1], m[2]))

\* no function has been called on its own
NoProbe == [op |-> "-", args |-> <<>>, out |-> "-"]

\* a call and what it hands back
Call(op, args, out) == [op |-> op, args |-> args, out |-> out]

\* ------------------------------------------------------------ ClaudeProcessor

ToolIds == {1, 2}

\* tool_handlers after TerraformAgent._setup_claude_tools (two of the eight
\* registered names; the others dispatch the same way)
tool_handlers == {"execute_terraform_destroy", "get_resources"}

\* names the model service may ask for: registered ones and one that is not
ToolNames == tool_handlers \cup {"nonexistent_tool"}

TextBlock == [type |-> "text", id |-> 0, name |-> "-", input |-> "-"]

ToolUseBlocks(inputs) ==
    [type : {"tool_use"}, id : ToolIds, name : ToolNames, input : inputs]

IsToolUse(b) == b.type = "tool_use"

ToolUseIds(bs) ==
    LET F[i \in 0..Len(bs)] ==
            IF i = 0 THEN <<>>
            ELSE IF IsToolUse(bs[i]) THEN Append(F[i-1], bs[i].id) ELSE F[i-1]
    IN F[Len(bs)]

ResultIds(rs) == [i \in 1..Len(rs) |-> rs[i].tool_use_id]

DistinctSeq(s) == \A i, j \in 1..Len(s) : i # j => s[i] # s[j]

SeqsUpTo(S, n) == UNION {[1..k -> S] : k \in 1..n}

\* response.content of a response whose stop_reason is "tool_use": text and
\* tool_use blocks (input already a dict), at least one tool_use, ids unique
\* within the response
ToolUseContents ==
    {bs \in SeqsUpTo({TextBlock} \cup ToolUseBlocks({"dict"}), MaxBlocks) :
        /\ ToolUseIds(bs) # <<>>
        /\ DistinctSeq(ToolUseIds(bs))}

UserText(p) == [role |-> "user", kind |-> "text", content |-> <<>>, owner |-> p]
AssistantText(p) ==
    [role |-> "assistant", kind |-> "text", content |-> <<>>, owner |-> p]
AssistantToolUse(p, bs) ==
    [role |-> "assistant", kind |-> "tool_use", content |-> bs, owner |-> p]
UserToolResult(p, rs) ==
    [role |-> "user", kind |-> "tool_result", content |-> rs, owner |-> p]

RolesOf(h) == [i \in 1..Len(h) |-> h[i].role]

\* a loop that takes the last tool_use block first
NextToolIdxLast(bs, i) ==
    IF \E k \in i..Len(bs) : IsToolUse(bs[k])
    THEN CHOOSE k \in i..Len(bs) :
            IsToolUse(bs[k]) /\ \A j \in (k+1)..Len(bs) : ~IsToolUse(bs[j])
    ELSE 0

\* index of the first tool_use block at or after i, 0 when there is none
NextToolIdx(bs, i) ==
    IF \E k \in i..Len(bs) : IsToolUse(bs[k])
    THEN CHOOSE k \in i..Len(bs) :
            IsToolUse(bs[k]) /\ \A j \in i..(k-1) : ~IsToolUse(bs[j])
    ELSE 0

NoDispatch == [kind |-> "-", tool |-> "-", available_tools |-> {}]

\* the handler of `name` is awaited
AwaitHandler(name) ==
    [kind |-> "handler", tool |-> name, available_tools |-> {}]

\* what a handler returned
HandlerResult(name) ==
    [kind |-> "result", tool |-> name, available_tools |-> {}]

\* {"error": str(e), "tool": tool_name}
HandlerError(name) ==
    [kind |-> "handler_error", tool |-> name, available_tools |-> {}]

\* a payload that lists every tool the model service knows
NotRegisteredListsAll(name, handlers) ==
    [kind |-> "not_registered", tool |-> name, available_tools |-> ToolNames]

\* {"error": f"Tool handler not registered: {tool_name}",
\*  "available_tools": list(self.tool_handlers.keys())}
NotRegistered(name, handlers) ==
    [kind |-> "not_registered", tool |-> name, available_tools |-> handlers]

\* _execute_tool up to the await: the name is looked up in self.tool_handlers
Dispatch(name) ==
    IF name \in registered
    THEN AwaitHandler(name)
    ELSE NotRegistered(name, registered)

\* _execute_tool: what a dispatch that decided d can return
ExecuteToolResults(d) ==
    IF d.kind = "handler"
    THEN {HandlerResult(d.tool), HandlerError(d.tool)}
    ELSE {d}

\* the terraform command a handler hands to the TaskEngine wrapper, "" if none
HandlerCommand(name) ==
    IF name = "execute_terraform_destroy" THEN "destroy" ELSE ""

NoCli == [cmd |-> "", via |-> "-"]

CliAfterTool(d, prev) ==
    IF d.kind = "handler" /\ HandlerCommand(d.tool) # ""
    THEN [cmd |-> HandlerCommand(d.tool), via |-> "tool"]
    ELSE prev

ToolResult(b, r) == [tool_use_id |-> b.id, content |-> r]

\* a loop that records every outcome as a success
CollectResultHidesErrors(rs, b, r) ==
    Append(rs, ToolResult(b, HandlerResult(r.tool)))

\* a loop that records a result only when the handler succeeded
CollectResultSkipsErrors(rs, b, r) ==
    IF r.kind = "result" THEN Append(rs, ToolResult(b, r)) ELSE rs

\* tool_results.append({... "tool_use_id": block.id, "content": ...})
CollectResult(rs, b, r) == Append(rs, ToolResult(b, r))

\* the record kept of a process_query call: the mode, the model requests
\* made, and for its latest tool turn the ids dispatched, in order, the
\* positions of the handlers that raised, and whether the follow-up request
\* was made
NoCall == [streaming |-> FALSE, nreq |-> 0, started |-> <<>>, raised |-> {},
           answered |-> FALSE, shape |-> <<>>, finalized |-> <<>>,
           forwarded |-> <<>>]

TurnStart(c) == [c EXCEPT !.started = <<>>, !.raised = {}, !.answered = FALSE]

NextStart(c, id) == [c EXCEPT !.started = Append(@, id)]

NoteReturn(c, r) ==
    IF r.kind = "handler_error"
    THEN [c EXCEPT !.raised = @ \cup {Len(c.started)}]
    ELSE c

Answered(c) == [c EXCEPT !.answered = TRUE, !.nreq = @ + 1]

\* response.usage: cache_creation_input_tokens and cache_read_input_tokens
\* may be missing or None (-1 here) or 0
CacheWrite == [input_tokens |-> 1, output_tokens |-> 1,
               cache_creation_input_tokens |-> 1, cache_read_input_tokens |-> -1]

CacheHit == [input_tokens |-> 1, output_tokens |-> 1,
             cache_creation_input_tokens |-> 0, cache_read_input_tokens |-> 1]

Usages == {CacheWrite, CacheHit}

NoTokens == [input |-> 0, output |-> 0, cache_creation |-> 0, cache_read |-> 0]

\* hasattr(usage, name) and usage.<name>
Present(n) == n # -1 /\ n # 0

\* counters that hold the usage of the latest response only
_track_token_usagePerRequest(t, usage) ==
    [input |-> usage.input_tokens,
     output |-> usage.output_tokens,
     cache_creation |->
        IF Present(usage.cache_creation_input_tokens)
        THEN usage.cache_creation_input_tokens ELSE 0,
     cache_read |->
        IF Present(usage.cache_read_input_tokens)
        THEN usage.cache_read_input_tokens ELSE 0]

_track_token_usage(t, usage) ==
    [input |-> t.input + usage.input_tokens,
     output |-> t.output + usage.output_tokens,
     cache_creation |->
        IF Present(usage.cache_creation_input_tokens)
        THEN t.cache_creation + usage.cache_creation_input_tokens
        ELSE t.cache_creation,
     cache_read |->
        IF Present(usage.cache_read_input_tokens)
        THEN t.cache_read + usage.cache_read_input_tokens
        ELSE t.cache_read]

\* what the service has charged after one more response with this usage
Charge(b, usage) ==
    [input |-> b.input + usage.input_tokens,
     output |-> b.output + usage.output_tokens,
     cache_creation |-> b.cache_creation +
        (IF usage.cache_creation_input_tokens > 0
         THEN usage.cache_creation_input_tokens ELSE 0),
     cache_read |-> b.cache_read +
        (IF usage.cache_read_input_tokens > 0
         THEN usage.cache_read_input_tokens ELSE 0)]

\* a response arrives with its usage; tracked tells whether the code passes
\* it to _track_token_usage
ResponseUsage(tracked) ==
    \E usage \in usages :
        /\ billed' = Charge(billed, usage)
        /\ tokens' = IF tracked THEN _track_token_usage(tokens, usage)
                                ELSE tokens

\* f"I encountered an error processing your query: {str(e)}..."
Apology == "I encountered an error processing your query"

\* _extract_text_from_response of a non-streamed response
ModelText == "final text"

\* process_query returns text: the call is over
ReturnText(p, value, text) ==
    /\ pc' = [pc EXCEPT ![p] = "idle"]
    /\ ret' = [ret EXCEPT ![p] = value]
    /\ answer' = [answer EXCEPT ![p] = text]
    /\ blocks' = [blocks EXCEPT ![p] = <<>>]
    /\ idx' = [idx EXCEPT ![p] = 0]
    /\ tool_results' = [tool_results EXCEPT ![p] = <<>>]
    /\ depth' = [depth EXCEPT ![p] = 0]
    /\ dispatch' = [dispatch EXCEPT ![p] = NoDispatch]

Return(p, value) ==
    ReturnText(p, value, IF value = "error" THEN Apology ELSE ModelText)

\* _handle_tool_use entered with response content c: text blocks are copied,
\* and the coroutine suspends in the handler of the first tool_use block
EnterToolUse(p, c) ==
    /\ pc' = [pc EXCEPT ![p] = "tool_running"]
    /\ blocks' = [blocks EXCEPT ![p] = c]
    /\ idx' = [idx EXCEPT ![p] = NextToolIdx(c, 1)]
    /\ dispatch' = [dispatch EXCEPT ![p] = Dispatch(c[NextToolIdx(c, 1)].name)]
    /\ tool_results' = [tool_results EXCEPT ![p] = <<>>]
    /\ depth' = [depth EXCEPT ![p] = depth[p] + 1]
    /\ rounds' = rounds + 1
    /\ ret' = ret
    /\ answer' = answer

\* process_query up to its first suspension: the user turn is appended and
\* the request is sent with messages = self.conversation_history
StartQuery(p, streaming) ==
    /\ pc[p] = "idle"
    /\ queries < MaxQueries
    /\ queries' = queries + 1
    /\ conversation_history' = Append(conversation_history, UserText(p))
    /\ lastSent' = RolesOf(conversation_history')
    /\ pc' = [pc EXCEPT ![p] = IF streaming THEN "streaming" ELSE "awaiting"]
    /\ ret' = [ret EXCEPT ![p] = "none"]
    /\ answer' = [answer EXCEPT ![p] = ""]
    /\ calls' = [calls EXCEPT ![p] = [NoCall EXCEPT !.streaming = streaming,
                                                   !.nreq = 1]]
    /\ terraform_context_cache' = "context"
    /\ UNCHANGED <<callers, usages, streams, file, mem, blocks, idx, tool_results, depth, rounds,
                   registered, dispatch, usageVars, lastCli, notClaude>>

\* await self.async_client.messages.create(**request_params) resumes
FirstResponse(p) ==
    /\ pc[p] = "awaiting"
    /\ \/ \* the model service raised: except Exception -> apologetic text
          /\ Return(p, "error")
          /\ UNCHANGED <<conversation_history, rounds, calls, usageVars>>
       \/ \* stop_reason # "tool_use": text extracted, assistant turn appended
          /\ ResponseUsage(TRUE)
          /\ conversation_history' =
                Append(conversation_history, AssistantText(p))
          /\ Return(p, "text")
          /\ UNCHANGED <<rounds, calls>>
       \/ \* stop_reason = "tool_use"
          /\ rounds < MaxRounds
          /\ ResponseUsage(TRUE)
          /\ \E c \in ToolUseContents :
                /\ EnterToolUse(p, c)
                /\ calls' = [calls EXCEPT ![p] =
                      NextStart(TurnStart(@), c[NextToolIdx(c, 1)].id)]
          /\ UNCHANGED conversation_history
    /\ UNCHANGED <<callers, usages, streams, memVars, lastSent, queries, registered, lastCli, notClaude>>

\* _handle_tool_use after its loop: both turns are appended, the follow-up
\* request is made with the synchronous client (no suspension), and its
\* response is handled
FollowUp(p, rs, c0) ==
    LET h1 == conversation_history \o
                <<AssistantToolUse(p, blocks[p]), UserToolResult(p, rs)>>
    IN /\ lastSent' = RolesOf(h1)
       /\ \/ \* self.client.messages.create raised
             /\ conversation_history' = h1
             /\ Return(p, "error")
             /\ calls' = [calls EXCEPT ![p] = Answered(c0)]
             /\ UNCHANGED <<rounds, usageVars>>
          \/ \* final text: returned to process_query, which appends it
             /\ ResponseUsage(FALSE)
             /\ conversation_history' = Append(h1, AssistantText(p))
             /\ Return(p, "text")
             /\ calls' = [calls EXCEPT ![p] = Answered(c0)]
             /\ UNCHANGED rounds
          \/ \* stop_reason = "tool_use" again: _handle_tool_use calls itself
             /\ depth[p] < MaxDepth
             /\ rounds < MaxRounds
             /\ ResponseUsage(FALSE)
             /\ conversation_history' = h1
             /\ \E c \in ToolUseContents :
                   /\ EnterToolUse(p, c)
                   /\ calls' = [calls EXCEPT ![p] =
                         NextStart(TurnStart(Answered(c0)),
                                   c[NextToolIdx(c, 1)].id)]

\* the handler awaited by _execute_tool returns (or raised, or the name is
\* not registered): the result is collected, then either the next tool_use
\* block's handler is started or the loop is over
ToolReturn(p) ==
    /\ pc[p] = "tool_running"
    /\ LET b == blocks[p][idx[p]]
           nxt == NextToolIdx(blocks[p], idx[p] + 1)
       IN \E r \in ExecuteToolResults(dispatch[p]) :
            /\ lastCli' = CliAfterTool(dispatch[p], lastCli)
            /\ IF nxt # 0
               THEN /\ tool_results' =
                        [tool_results EXCEPT ![p] = CollectResult(@, b, r)]
                    /\ idx' = [idx EXCEPT ![p] = nxt]
                    /\ dispatch' = [dispatch EXCEPT
                                        ![p] = Dispatch(blocks[p][nxt].name)]
                    /\ calls' = [calls EXCEPT ![p] =
                          NextStart(NoteReturn(@, r), blocks[p][nxt].id)]
                    /\ UNCHANGED <<conversation_history, pc, blocks, depth,
                                   ret, answer, lastSent, rounds,
                                   usageVars>>
               ELSE FollowUp(p, CollectResult(tool_results[p], b, r),
                             NoteReturn(calls[p], r))
    /\ UNCHANGED <<callers, usages, streams, memVars, queries, registered, notClaude>>

\* ---- the streaming variant, _process_with_streaming

\* the content blocks of a streamed message: a text block with its text
\* deltas, a thinking block, or a tool_use block with the fragments of its
\* input JSON
TextShapes ==
    [type : {"text"}, id : {0}, name : {"-"}, parts : {<<"Hi">>, <<"Hi", "!">>}]

ThinkingShapes ==
    [type : {"thinking"}, id : {0}, name : {"-"}, parts : {<<"Hmm">>}]

ToolShapes(parts) ==
    [type : {"tool_use"}, id : ToolIds, name : ToolNames, parts : parts]

\* streams of tool_use blocks only, whose input arrives in one fragment or
\* in none, and the empty message
BasicStreams ==
    {<<>>} \cup
    {shape \in SeqsUpTo(ToolShapes({<<>>, <<"{}">>}), MaxBlocks) :
        DistinctSeq(ToolUseIds(shape))}

\* streams mixing text, thinking and tool_use blocks, the input of a tool
\* arriving in two fragments or in none
RichStreams ==
    {shape \in SeqsUpTo(TextShapes \cup ThinkingShapes
                            \cup ToolShapes({<<>>, <<"{", "}">>}), MaxBlocks) :
        DistinctSeq(ToolUseIds(shape))}

BlockStart(b) ==
    [type |-> "content_block_start", block |-> b.type, id |-> b.id,
     name |-> b.name, delta |-> "-", text |-> ""]

DeltaType(b) ==
    IF b.type = "text" THEN "text_delta"
    ELSE IF b.type = "thinking" THEN "thinking_delta"
    ELSE "input_json_delta"

BlockDelta(b, part) ==
    [type |-> "content_block_delta", block |-> "-", id |-> 0, name |-> "-",
     delta |-> DeltaType(b), text |-> part]

BlockStop ==
    [type |-> "content_block_stop", block |-> "-", id |-> 0, name |-> "-",
     delta |-> "-", text |-> ""]

MessageStop ==
    [type |-> "message_stop", block |-> "-", id |-> 0, name |-> "-",
     delta |-> "-", text |-> ""]

BlockEvents(b) ==
    <<BlockStart(b)>> \o [k \in 1..Len(b.parts) |-> BlockDelta(b, b.parts[k])]
        \o <<BlockStop>>

\* the event sequence of a well-formed stream: the blocks one after the
\* other, then message_stop
EventsOf(shape) ==
    LET F[i \in 0..Len(shape)] ==
            IF i = 0 THEN <<>> ELSE F[i-1] \o BlockEvents(shape[i])
    IN F[Len(shape)] \o <<MessageStop>>

NoToolUse == [type |-> "-", id |-> 0, name |-> "-", input |-> ""]

\* the locals of _process_with_streaming before the first event
NoStream ==
    [accumulated_text |-> <<>>, accumulated_thinking |-> <<>>,
     tool_uses |-> <<>>, current_tool_use |-> NoToolUse, forwarded |-> <<>>,
     tracked |-> FALSE]

\* self.stream_callback(text) when a callback is set
Forward(st, cb, text) ==
    IF cb THEN [st EXCEPT !.forwarded = Append(@, text)] ELSE st

\* an event loop that forgets to clear current_tool_use when a block stops
OnEventKeepsCurrent(st, e, cb) ==
    IF e.type = "content_block_start"
    THEN IF e.block = "tool_use"
         THEN [st EXCEPT !.current_tool_use =
                    [type |-> "tool_use", id |-> e.id, name |-> e.name,
                     input |-> ""]]
         ELSE st
    ELSE IF e.type = "content_block_delta"
    THEN IF e.delta = "text_delta"
         THEN Forward([st EXCEPT !.accumulated_text = Append(@, e.text)],
                      cb, e.text)
         ELSE IF e.delta = "thinking_delta"
         THEN Forward([st EXCEPT !.accumulated_thinking = Append(@, e.text)],
                      cb, "[Thinking: " \o e.text \o "]")
         ELSE IF st.current_tool_use # NoToolUse
         THEN [st EXCEPT !.current_tool_use.input = @ \o e.text]
         ELSE st
    ELSE IF e.type = "content_block_stop"
    THEN IF st.current_tool_use # NoToolUse
         THEN [st EXCEPT !.tool_uses = Append(@, st.current_tool_use)]
         ELSE st
    ELSE [st EXCEPT !.tracked = TRUE]

\* the body of `async for event in stream` for one event
OnEvent(st, e, cb) ==
    IF e.type = "content_block_start"
    THEN IF e.block = "tool_use"
         THEN [st EXCEPT !.current_tool_use =
                    [type |-> "tool_use", id |-> e.id, name |-> e.name,
                     input |-> ""]]
         ELSE st
    ELSE IF e.type = "content_block_delta"
    THEN IF e.delta = "text_delta"
         THEN Forward([st EXCEPT !.accumulated_text = Append(@, e.text)],
                      cb, e.text)
         ELSE IF e.delta = "thinking_delta"
         THEN Forward([st EXCEPT !.accumulated_thinking = Append(@, e.text)],
                      cb, "[Thinking: " \o e.text \o "]")
         ELSE IF st.current_tool_use # NoToolUse
         THEN [st EXCEPT !.current_tool_use.input = @ \o e.text]
         ELSE st
    ELSE IF e.type = "content_block_stop"
    THEN IF st.current_tool_use # NoToolUse
         THEN [st EXCEPT !.tool_uses = Append(@, st.current_tool_use),
                         !.current_tool_use = NoToolUse]
         ELSE st
    ELSE [st EXCEPT !.tracked = TRUE]

\* the whole `async for` loop over the events received
ProcessStream(events, cb) ==
    LET F[i \in 0..Len(events)] ==
            IF i = 0 THEN NoStream ELSE OnEvent(F[i-1], events[i], cb)
    IN F[Len(events)]

\* `if use_streaming and self.stream_callback`: the streaming variant only runs
\* with a subscriber registered
stream_callback == TRUE

\* what one stream can leave behind: the locals after all its events, or,
\* when it raised after some of them, what was forwarded until then
Completed(shape) ==
    [raised |-> FALSE, shape |-> shape,
     st |-> ProcessStream(EventsOf(shape), stream_callback)]

Interrupted(shape, n) ==
    [raised |-> TRUE, shape |-> <<>>,
     st |-> [NoStream EXCEPT !.forwarded =
                ProcessStream(SubSeq(EventsOf(shape), 1, n),
                              stream_callback).forwarded]]

OutcomesOf(shapes) ==
    UNION {{Completed(shape)} \cup
           {Interrupted(shape, n) : n \in 0..(Len(EventsOf(shape)) - 1)} :
           shape \in shapes}

BasicOutcomes == OutcomesOf(BasicStreams)

\* the empty message and one call of get_resources
SmallOutcomes ==
    OutcomesOf({<<>>,
                <<[type |-> "tool_use", id |-> 1, name |-> "get_resources",
                   parts |-> <<"{}">>]>>})

RichOutcomes == OutcomesOf(RichStreams)

StreamOutcomes ==
    IF streams = "rich" THEN RichOutcomes
    ELSE IF streams = "small" THEN SmallOutcomes
    ELSE BasicOutcomes

\* ''.join(parts)
Join(parts) ==
    LET F[i \in 0..Len(parts)] ==
            IF i = 0 THEN "" ELSE F[i-1] \o parts[i]
    IN F[Len(parts)]

\* full_text if full_text else "I couldn't generate a response."
StreamText(st) ==
    IF Join(st.accumulated_text) # ""
    THEN Join(st.accumulated_text)
    ELSE "I couldn't generate a response."

\* ---- _extract_text_from_response

\* the content blocks of a response: TextBlock has the attribute text,
\* ThinkingBlock the attribute thinking, the others neither
ContentBlocks ==
    {[type |-> "text", text |-> "Hi", thinking |-> "-"],
     [type |-> "text", text |-> "!", thinking |-> "-"],
     [type |-> "text", text |-> "", thinking |-> "-"],
     [type |-> "thinking", text |-> "-", thinking |-> "Hmm"],
     [type |-> "thinking", text |-> "-", thinking |-> "Well"],
     [type |-> "redacted_thinking", text |-> "-", thinking |-> "-"],
     [type |-> "tool_use", text |-> "-", thinking |-> "-"]}

Contents == {<<>>} \cup SeqsUpTo(ContentBlocks, MaxBlocks)

\* '\n'.join(parts)
JoinLines(parts) ==
    LET F[i \in 0..Len(parts)] ==
            IF i = 0 THEN ""
            ELSE IF i = 1 THEN parts[1]
            ELSE F[i-1] \o "\n" \o parts[i]
    IN F[Len(parts)]

\* the extraction with the reasoning prepended to the answer
_extract_text_from_responsePrepending(content, include_thinking) ==
    LET texts == SelectSeq(content, LAMBDA block : block.type = "text")
        thinkings == SelectSeq(content, LAMBDA block : block.type = "thinking")
        text_parts == [i \in 1..Len(texts) |-> texts[i].text]
        thinking_parts == [i \in 1..Len(thinkings) |-> thinkings[i].thinking]
        extracted == IF text_parts # <<>> THEN JoinLines(text_parts)
                  ELSE "I couldn't generate a response."
    IN IF include_thinking /\ thinking_parts # <<>>
       THEN JoinLines(thinking_parts) \o "\n\n" \o extracted
       ELSE extracted

\* _extract_text_from_response(response, include_thinking): the texts of the
\* blocks that have one, joined by newlines; the reasoning is only logged
_extract_text_from_response(content, include_thinking) ==
    LET texts == SelectSeq(content, LAMBDA block : block.type = "text")
        thinkings == SelectSeq(content, LAMBDA block : block.type = "thinking")
        text_parts == [i \in 1..Len(texts) |-> texts[i].text]
        thinking_parts == [i \in 1..Len(thinkings) |-> thinkings[i].thinking]
        extracted == IF text_parts # <<>> THEN JoinLines(text_parts)
                  ELSE "I couldn't generate a response."
    IN extracted

\* json.loads(tool_use["input"]): the empty string is not JSON
JsonLoads(input) == IF input = "{}" THEN "ok" ELSE "JSONDecodeError"

\* the streaming tool loop reaches tool_uses[i]: its input is decoded and the
\* handler awaited; a decoding error leaves _process_with_streaming and is
\* turned into the apologetic text by process_query
StreamStartTool(p, tus, i, rs, c0) ==
    IF JsonLoads(tus[i].input) = "ok"
    THEN /\ pc' = [pc EXCEPT ![p] = "stream_tool_running"]
         /\ calls' = [calls EXCEPT ![p] = NextStart(c0, tus[i].id)]
         /\ blocks' = [blocks EXCEPT ![p] = tus]
         /\ idx' = [idx EXCEPT ![p] = i]
         /\ tool_results' = [tool_results EXCEPT ![p] = rs]
         /\ dispatch' = [dispatch EXCEPT ![p] = Dispatch(tus[i].name)]
         /\ UNCHANGED <<ret, answer, depth>>
    ELSE /\ Return(p, "error")
         /\ calls' = [calls EXCEPT ![p] = c0]

\* async with self.async_client.messages.stream(...) is over: the events of
\* one stream have been handled, or the stream raised after some of them
StreamDone(p) ==
    /\ pc[p] = "streaming"
    /\ \E o \in StreamOutcomes :
        LET st == o.st
            c0 == [calls[p] EXCEPT !.shape = o.shape,
                                   !.finalized = st.tool_uses,
                                   !.forwarded = st.forwarded]
        IN IF o.raised
           THEN \* except Exception of process_query
                /\ Return(p, "error")
                /\ calls' = [calls EXCEPT ![p] = c0]
                /\ UNCHANGED <<conversation_history, rounds, usageVars>>
           ELSE IF st.tool_uses = <<>>
           THEN \* no tool call: the accumulated text is the answer
                /\ ResponseUsage(st.tracked)
                /\ conversation_history' =
                     Append(conversation_history, AssistantText(p))
                /\ ReturnText(p, "text", StreamText(st))
                /\ calls' = [calls EXCEPT ![p] = c0]
                /\ UNCHANGED rounds
           ELSE \* tool_uses and use_tools
                /\ rounds < MaxRounds
                /\ rounds' = rounds + 1
                /\ ResponseUsage(st.tracked)
                /\ StreamStartTool(p, st.tool_uses, 1, <<>>, TurnStart(c0))
                /\ UNCHANGED conversation_history
    /\ UNCHANGED <<callers, usages, streams, memVars, lastSent, queries,
                   registered, lastCli, notClaude>>

\* [{"type": "tool_use", **tu} for tu in tool_uses]
StreamAssistantContent(tus) == tus

\* a handler of the streaming tool loop returns
StreamToolReturn(p) ==
    /\ pc[p] = "stream_tool_running"
    /\ LET b == blocks[p][idx[p]]
       IN \E r \in ExecuteToolResults(dispatch[p]) :
            LET rs == CollectResult(tool_results[p], b, r)
            IN /\ lastCli' = CliAfterTool(dispatch[p], lastCli)
               /\ IF idx[p] < Len(blocks[p])
                  THEN /\ StreamStartTool(p, blocks[p], idx[p] + 1, rs,
                                          NoteReturn(calls[p], r))
                       /\ UNCHANGED <<conversation_history, lastSent>>
                  ELSE \* both turns appended, the follow-up request awaited
                       /\ conversation_history' = conversation_history \o
                            <<AssistantToolUse(p, StreamAssistantContent(blocks[p])),
                              UserToolResult(p, rs)>>
                       /\ lastSent' = RolesOf(conversation_history')
                       /\ pc' = [pc EXCEPT ![p] = "stream_followup"]
                       /\ tool_results' = [tool_results EXCEPT ![p] = rs]
                       /\ dispatch' = [dispatch EXCEPT ![p] = NoDispatch]
                       /\ calls' = [calls EXCEPT ![p] =
                                    Answered(NoteReturn(@, r))]
                       /\ UNCHANGED <<blocks, idx, ret, answer, depth>>
    /\ UNCHANGED <<callers, usages, streams, memVars, queries, rounds, registered, usageVars,
                   notClaude>>

\* await self.async_client.messages.create(..., tools=[]) resumes
StreamFollowUp(p) ==
    /\ pc[p] = "stream_followup"
    /\ \/ /\ Return(p, "error")
          /\ UNCHANGED <<conversation_history, usageVars>>
       \/ /\ ResponseUsage(TRUE)
          /\ conversation_history' =
                Append(conversation_history, AssistantText(p))
          /\ Return(p, "text")
    /\ UNCHANGED <<callers, usages, streams, memVars, lastSent, queries, rounds, registered, calls,
                   lastCli, notClaude>>

\* register_tool_handler(tool_name, handler), called by some other coroutine
\* or between queries; it cannot run while a process_query call is between
\* two of its suspension points (here: an unregistered name being answered)
register_tool_handler(tool_name) ==
    /\ \A p \in callers : dispatch[p].kind # "not_registered"
    /\ registered' = registered \cup {tool_name}
    /\ UNCHANGED <<callers, usages, streams, memVars, conversation_history, pc, blocks, idx,
                   tool_results, depth, ret, answer, lastSent, queries,
                   rounds,
                   dispatch, calls, usageVars, lastCli, notClaude>>

\* ---- process_with_image, export_conversation, import_conversation,
\* ---- clear_memory

NoFile == [exists |-> FALSE, data |-> <<>>]

\* no export, import or clear yet. source: 0 for the exported file, k for
\* OtherFiles[k]; fresh: the processor was as constructed before the import;
\* exported: what the processor held when the file was exported
NoMem == [op |-> "-", tick |-> 0, source |-> -1, fresh |-> FALSE,
          exported |-> [conversation_history |-> <<>>, tokens |-> NoTokens]]

Did(op, source) ==
    [op |-> op, tick |-> 1 - mem.tick, source |-> source,
     fresh |-> /\ conversation_history = <<>>
               /\ tokens = NoTokens
               /\ terraform_context_cache = "None",
     exported |-> IF op = "export"
                  THEN [conversation_history |-> conversation_history,
                        tokens |-> tokens]
                  ELSE mem.exported]

\* the user turn with an image block and a text block
UserImage(p) ==
    [role |-> "user", kind |-> "image", content |-> <<>>, owner |-> p]

\* process_with_image up to its suspension in messages.create; project_data
\* may be missing
ImageStart(p, project_data) ==
    /\ pc[p] = "idle"
    /\ queries < MaxQueries
    /\ queries' = queries + 1
    /\ conversation_history' = Append(conversation_history, UserImage(p))
    /\ lastSent' = RolesOf(conversation_history')
    /\ pc' = [pc EXCEPT ![p] = "image"]
    /\ ret' = [ret EXCEPT ![p] = "none"]
    /\ answer' = [answer EXCEPT ![p] = ""]
    /\ calls' = [calls EXCEPT ![p] = [NoCall EXCEPT !.nreq = 1]]
    /\ terraform_context_cache' =
            IF project_data THEN "context" ELSE terraform_context_cache
    /\ UNCHANGED <<callers, usages, streams, file, mem, blocks, idx,
                   tool_results, depth, rounds, registered, dispatch,
                   usageVars, lastCli, notClaude>>

\* messages.create of process_with_image resumes: it raised, or the usage is
\* tracked and the answer appended
ImageResponse(p) ==
    /\ pc[p] = "image"
    /\ \/ /\ ReturnText(p, "error", "I encountered an error processing the image")
          /\ UNCHANGED <<conversation_history, usageVars>>
       \/ /\ ResponseUsage(TRUE)
          /\ conversation_history' =
                Append(conversation_history, AssistantText(p))
          /\ Return(p, "text")
    /\ UNCHANGED <<callers, usages, streams, memVars, lastSent, queries, rounds,
                   registered, calls, lastCli, notClaude>>

\* get_token_usage_stats(), without the cost estimates
get_token_usage_stats ==
    [total_input_tokens |-> tokens.input,
     total_output_tokens |-> tokens.output,
     total_tokens |-> tokens.input + tokens.output,
     cache_creation_tokens |-> tokens.cache_creation,
     cache_read_tokens |-> tokens.cache_read,
     cache_savings_tokens |-> tokens.cache_read]

\* json.dumps and json.loads of one turn {"role": ..., "content": ...}: the
\* content is a string or a list of block dicts, None is written as null
DumpTurn(turn) ==
    [role |-> turn.role,
     content |-> [json |-> IF turn.kind = "text" THEN "string" ELSE "array",
                  of |-> turn.kind, items |-> turn.content, by |-> turn.owner]]

LoadTurn(j) ==
    [role |-> j.role, kind |-> j.content.of, content |-> j.content.items,
     owner |-> j.content.by]

DumpNone(v) == IF v = "None" THEN "null" ELSE v

LoadNone(j) == IF j = "null" THEN "None" ELSE j

\* dict.get(key, default)
Get(obj, key, default) == IF key \in DOMAIN obj THEN obj[key] ELSE default

\* The three operations below are commands of the main loop, which reads a
\* command only after the previous one has returned: no call is in flight.
BetweenCommands == \A p \in callers : pc[p] = "idle"

\* export_conversation(file_path): the three fields, json.dumps, write_text
export_conversation ==
    /\ BetweenCommands
    /\ file' = [exists |-> TRUE,
                data |->
                  [conversation_history |->
                        [i \in 1..Len(conversation_history) |->
                            DumpTurn(conversation_history[i])],
                   token_usage |-> get_token_usage_stats,
                   terraform_context |-> DumpNone(terraform_context_cache)]]
    /\ mem' = Did("export", -1)
    /\ UNCHANGED <<callers, usages, streams, terraform_context_cache,
                   conversation_history, pc, blocks, idx, tool_results, depth,
                   ret, answer, lastSent, queries, rounds, registered,
                   dispatch, calls, usageVars, lastCli, notClaude>>

\* files somebody else wrote: fields may be absent
OtherFiles ==
    <<[exists |-> TRUE, data |-> <<>>],
      [exists |-> TRUE,
       data |-> [conversation_history |-> <<DumpTurn(UserText(1))>>]],
      [exists |-> TRUE,
       data |-> [token_usage |-> [total_input_tokens |-> 2],
                 terraform_context |-> "other context"]]>>

\* the file import_conversation reads: the exported one or another one
FileOf(source) == IF source = 0 THEN file ELSE OtherFiles[source]

\* an import that reads the counters under the names of the attributes
ImportedTokensByAttribute(token_usage) ==
    [input |-> Get(token_usage, "total_input_tokens", 0),
     output |-> Get(token_usage, "total_output_tokens", 0),
     cache_creation |-> Get(token_usage, "total_cache_creation_tokens", 0),
     cache_read |-> Get(token_usage, "total_cache_read_tokens", 0)]

\* the four counters import_conversation restores
ImportedTokens(token_usage) ==
    [input |-> Get(token_usage, "total_input_tokens", 0),
     output |-> Get(token_usage, "total_output_tokens", 0),
     cache_creation |-> Get(token_usage, "cache_creation_tokens", 0),
     cache_read |-> Get(token_usage, "cache_read_tokens", 0)]

\* an import that keeps the turns it already has
ImportedHistoryAppended(data) ==
    LET turns == Get(data, "conversation_history", <<>>)
    IN conversation_history \o [i \in 1..Len(turns) |-> LoadTurn(turns[i])]

\* data.get("conversation_history", [])
ImportedHistory(data) ==
    LET turns == Get(data, "conversation_history", <<>>)
    IN [i \in 1..Len(turns) |-> LoadTurn(turns[i])]

\* import_conversation(file_path) of a file that holds a JSON object
import_conversation(source) ==
    /\ BetweenCommands
    /\ FileOf(source).exists
    /\ conversation_history' = ImportedHistory(FileOf(source).data)
    /\ terraform_context_cache' =
            LoadNone(Get(FileOf(source).data, "terraform_context", "null"))
    /\ tokens' = ImportedTokens(Get(FileOf(source).data, "token_usage", <<>>))
    /\ mem' = Did("import", source)
    /\ UNCHANGED <<callers, usages, streams, file, pc, blocks, idx, tool_results,
                   depth, ret, answer, lastSent, queries, rounds, registered,
                   dispatch, calls, billed, lastCli, notClaude>>

clear_memory ==
    /\ BetweenCommands
    /\ conversation_history' = <<>>
    /\ terraform_context_cache' = "None"
    /\ tokens' = NoTokens
    /\ mem' = Did("clear", -1)
    /\ UNCHANGED <<callers, usages, streams, file, pc, blocks, idx,
                   tool_results, depth, ret, answer, lastSent, queries, rounds,
                   registered, dispatch, calls, billed, lastCli, notClaude>>

\* ------------------------------------------------------------ TerraformAgent

\* _detect_terraform_command: the actions a typed command can map to
TerraformActions == {"plan", "apply", "destroy"}

\* process_command_async with a terraform command: _execute_terraform_command
\* calls the TaskEngine wrapper, which runs the command. The main loop awaits
\* each command before it reads the next one, so no query is in flight.
AgentTerraformCommand(a) ==
    /\ \A p \in callers : pc[p] = "idle"
    /\ lastCli' = [cmd |-> a, via |-> "direct"]
    /\ lastCli' # lastCli
    /\ UNCHANGED <<claudeVars, notClaude>>

\* ------------------------------------------- HumanInTheLoop, ToolInterceptor

\* requests created in one behaviour
MaxRequests == 2

Interceptors == {1, 2}

ApprovalStatus == {"PENDING", "APPROVED", "REJECTED", "MODIFIED"}

\* tool names handed to the interceptor
InterceptedTools == {"execute_terraform_destroy", "get_resources"}

\* tool_input values: the empty dict, a dict naming a production workspace
ToolInputs == {"{}", "{'workspace': 'prod'}"}

critical_operations ==
    {"execute_terraform_apply", "execute_terraform_destroy",
     "terraform_apply", "terraform_destroy"}

production_indicators == {"prod", "production", "live", "main", "master"}

\* a gate that looks for the markers without lower-casing the arguments
is_productionCaseSensitive(tool_input) ==
    \E indicator \in production_indicators : Contains(tool_input, indicator)

\* any(indicator in str(tool_input).lower() for indicator in production_indicators)
\* (tool_input stands for str(tool_input))
is_production(tool_input) ==
    \E indicator \in production_indicators :
        Contains(Lower(tool_input), indicator)

requires_approval(tool_name, tool_input) ==
    IF ~human_in_the_loop
    THEN FALSE
    ELSE tool_name \in critical_operations \/ is_production(tool_input)

_assess_risk_level(tool_name) ==
    IF tool_name = "execute_terraform_destroy" THEN "HIGH"
    ELSE IF tool_name = "execute_terraform_apply" THEN "MEDIUM"
    ELSE "LOW"

\* pending_approvals is a dict: insertion-ordered <<key, request>> pairs
PendingKeys(pa) == {pa[i][1] : i \in 1..Len(pa)}

\* self.pending_approvals[key] = r
PendingPut(pa, key, r) ==
    IF key \in PendingKeys(pa)
    THEN [i \in 1..Len(pa) |-> IF pa[i][1] = key THEN <<key, r>> ELSE pa[i]]
    ELSE Append(pa, <<key, r>>)

\* del self.pending_approvals[key], for a key that is present
PendingDel(pa, key) == SelectSeq(pa, LAMBDA e : e[1] # key)

\* f"{tool_name}_{len(self.pending_approvals)}"
ApprovalId(tool_name, pa) == <<tool_name, Len(pa)>>

\* truthiness of modified_input: None and the empty dict are falsy
Truthy(input) == input \notin {"None", "{}"}

\* what the operator's answer to _display_approval_request can be; the
\* development stub of the source always answers (APPROVED, tool_input)
Resolutions(tool_input) ==
    {<<"APPROVED", tool_input>>, <<"REJECTED", "None">>, <<"PENDING", "None">>,
     <<"MODIFIED", "{'auto_approve': True}">>, <<"MODIFIED", "{}">>}

IdleCall == [pc |-> "idle", tool |-> "-", input |-> "-", key |-> <<>>,
             req |-> 0, status |-> "-", outcome |-> "none",
             executed_with |-> "-", executions |-> 0]

\* return await tool_executor(tool_input)
Executed(call, input) ==
    [call EXCEPT !.pc = "done", !.outcome = "executed",
                 !.executed_with = input, !.executions = @ + 1]

Raised(call, error) == [call EXCEPT !.pc = "done", !.outcome = error]

\* an interceptor that raises only for REJECTED and runs a pending operation
AfterApprovalRunsPending(call, status, modified) ==
    IF status = "REJECTED" THEN Raised(call, "rejected")
    ELSE IF status = "MODIFIED" /\ Truthy(modified) THEN Executed(call, modified)
    ELSE Executed(call, call.input)

\* an interceptor that raises only for PENDING and lets a rejection through
AfterApprovalIgnoresRejection(call, status, modified) ==
    IF status = "MODIFIED" /\ Truthy(modified) THEN Executed(call, modified)
    ELSE IF status = "PENDING" THEN Raised(call, "pending")
    ELSE Executed(call, call.input)

\* intercept_tool_execution after request_approval returned
AfterApproval(call, status, modified) ==
    IF status = "REJECTED" THEN Raised(call, "rejected")
    ELSE IF status = "MODIFIED" /\ Truthy(modified) THEN Executed(call, modified)
    ELSE IF status = "PENDING" THEN Raised(call, "pending")
    ELSE Executed(call, call.input)

\* intercept_tool_execution up to its suspension in _display_approval_request,
\* or to its end when no approval is required
InterceptStart(c, tool, input) ==
    /\ icall[c].pc # "awaiting"
    /\ LET call == [IdleCall EXCEPT !.tool = tool, !.input = input]
       IN IF requires_approval(tool, input)
          THEN /\ Len(requests) < max_requests
               /\ LET key == ApprovalId(tool, pending_approvals)
                      r == Len(requests) + 1
                  IN /\ requests' = Append(requests,
                            [id |-> key, tool_name |-> tool, tool_input |-> input,
                             status |-> "PENDING", modified_input |-> "unset",
                             risk_level |-> _assess_risk_level(tool)])
                     /\ pending_approvals' = PendingPut(pending_approvals, key, r)
                     /\ icall' = [icall EXCEPT ![c] =
                            [call EXCEPT !.pc = "awaiting", !.key = key, !.req = r]]
               /\ UNCHANGED approval_history
          ELSE /\ icall' = [icall EXCEPT ![c] = Executed(call, input)]
               /\ UNCHANGED <<requests, pending_approvals, approval_history>>
    /\ UNCHANGED <<human_in_the_loop, max_requests, notHil>>

\* _display_approval_request returns (status, modified): request_approval
\* records the resolution and intercept_tool_execution acts on it
Resolve(c, status, modified) ==
    /\ icall[c].pc = "awaiting"
    /\ LET call == [icall[c] EXCEPT !.status = status]
       IN /\ requests' = [requests EXCEPT ![call.req] =
                [@ EXCEPT !.status = status, !.modified_input = modified]]
          /\ approval_history' = Append(approval_history, call.req)
          /\ IF call.key \in PendingKeys(pending_approvals)
             THEN /\ pending_approvals' = PendingDel(pending_approvals, call.key)
                  /\ icall' = [icall EXCEPT ![c] =
                                  AfterApproval(call, status, modified)]
             ELSE \* del raises KeyError, which leaves both functions
                  /\ icall' = [icall EXCEPT ![c] = Raised(call, "KeyError")]
                  /\ UNCHANGED pending_approvals
    /\ UNCHANGED <<human_in_the_loop, max_requests, notHil>>

\* pattern.lower() in approval["tool_name"].lower()
PatternMatches(pattern, tool_name) ==
    \/ pattern = "None"
    \/ pattern = "destroy" /\ tool_name = "execute_terraform_destroy"
    \/ pattern = "resources" /\ tool_name = "get_resources"

AutoApproveFold(pa, pattern, reqs, hist) ==
    LET F[i \in 0..Len(pa)] ==
            IF i = 0 THEN <<reqs, hist>>
            ELSE LET r == pa[i][2]
                 IN IF PatternMatches(pattern, reqs[r].tool_name)
                    THEN <<[F[i-1][1] EXCEPT ![r].status = "APPROVED"],
                           Append(F[i-1][2], r)>>
                    ELSE F[i-1]
    IN F[Len(pa)]

auto_approve_pending(pattern) ==
    /\ pending_approvals # <<>>
    /\ LET res == AutoApproveFold(pending_approvals, pattern, requests,
                                  approval_history)
       IN /\ requests' = res[1]
          /\ approval_history' = res[2]
          /\ pending_approvals' = SelectSeq(pending_approvals,
                LAMBDA e : ~PatternMatches(pattern, requests[e[2]].tool_name))
    /\ UNCHANGED <<human_in_the_loop, max_requests, icall, notHil>>

clear_pending_approvals ==
    /\ pending_approvals # <<>>
    /\ pending_approvals' = <<>>
    /\ UNCHANGED <<human_in_the_loop, max_requests, requests, approval_history,
                   icall, notHil>>

\* ------------------------------------------------------------------ TaskEngine

\* tasks created in one behaviour
MaxTasks == 2

TaskStatus == {"PENDING", "RUNNING", "COMPLETED", "FAILED", "CANCELLED"}

\* self._cache_ttl = 60  # seconds
_cache_ttl == 60

\* the latest value time.time() takes in one behaviour
MaxClock == 150
\* changes of the project files in one behaviour
MaxEdits == 2

\* seconds that pass between two steps: ages of 60 and of 61 both occur
ClockSteps == {30, 31}

NoGet == [called |-> FALSE, force |-> FALSE, prev |-> -1, prev_ts |-> -1,
          at |-> 0, parsed |-> 0, raised |-> FALSE, returned |-> -1]

\* a cache that never expires
CacheFreshForever ==
    /\ project_cache # -1
    /\ cache_timestamp # -1

\* the negation of the refresh condition, without force_refresh: a cache and
\* a timestamp exist and current_time - timestamp > ttl is false
CacheFresh ==
    /\ project_cache # -1
    /\ cache_timestamp # -1
    /\ ~(now - cache_timestamp > _cache_ttl)

\* get_project_data(force_refresh); parse_ok tells whether parse_project
\* returns or raises when it is invoked
GetProjectData(force_refresh, parse_ok) ==
    LET call == [NoGet EXCEPT !.called = TRUE, !.force = force_refresh,
                              !.prev = project_cache,
                              !.prev_ts = cache_timestamp, !.at = now]
    IN IF force_refresh \/ ~CacheFresh
       THEN IF parse_ok
            THEN /\ project_cache' = disk
                 /\ cache_timestamp' = now
                 /\ gpd' = [call EXCEPT !.parsed = 1, !.returned = disk]
            ELSE /\ gpd' = [call EXCEPT !.parsed = 1, !.raised = TRUE]
                 /\ UNCHANGED <<project_cache, cache_timestamp>>
       ELSE /\ parse_ok
            /\ gpd' = [call EXCEPT !.returned = project_cache]
            /\ UNCHANGED <<project_cache, cache_timestamp>>

get_project_data(force_refresh, parse_ok) ==
    /\ GetProjectData(force_refresh, parse_ok)
    /\ UNCHANGED <<now, disk, notCache>>

\* time passes
AdvanceClock(d) ==
    /\ now + d <= MaxClock
    /\ now' = now + d
    /\ UNCHANGED <<project_cache, cache_timestamp, disk, gpd, notCache>>

\* somebody edits the .tf files
EditProject ==
    /\ disk < MaxEdits
    /\ disk' = disk + 1
    /\ UNCHANGED <<project_cache, cache_timestamp, now, gpd, notCache>>

\* observers registered in one behaviour
MaxCallbacks == 2

\* the observers: the agent's _on_task_update, which reads task.intent (a Task
\* has no such field) when the status is COMPLETED or RUNNING; one that always
\* raises; one that never does
Observers == {"_on_task_update", "failing", "quiet"}

ObserverRaises(observer, status) ==
    \/ observer = "failing"
    \/ observer = "_on_task_update" /\ status \in {"COMPLETED", "RUNNING"}

\* no TaskEngine operation yet
NoOp == [name |-> "-", task |-> 0, returned |-> "-", before |-> <<>>,
         notified |-> <<>>]

Op(name, t, returned, notified) ==
    [name |-> name, task |-> t, returned |-> returned, before |-> tasks,
     notified |-> notified]

Notification(k, t, status) ==
    [observer |-> k, task |-> t, status |-> status,
     raised |-> ObserverRaises(task_callbacks[k], status)]

\* a notification loop that an observer's exception leaves
_notify_task_updateUnguarded(t, status) ==
    LET all == [k \in 1..Len(task_callbacks) |-> Notification(k, t, status)]
        firstRaise == IF \E k \in 1..Len(all) : all[k].raised
                      THEN CHOOSE k \in 1..Len(all) :
                            all[k].raised /\ \A j \in 1..(k-1) : ~all[j].raised
                      ELSE Len(all)
    IN SubSeq(all, 1, firstRaise)

\* _notify_task_update(task): every callback is called in registration
\* order, inside try / except Exception
_notify_task_update(t, status) ==
    [k \in 1..Len(task_callbacks) |-> Notification(k, t, status)]

add_task_callback(callback) ==
    /\ Len(task_callbacks) < MaxCallbacks
    /\ task_callbacks' = Append(task_callbacks, callback)
    /\ last_op' = Op("add_task_callback", 0, "None", <<>>)
    /\ UNCHANGED <<tasks, executing, cacheVars, notTask>>

\* Task(id, query, status=PENDING, created_at=time.time()); progress in tenths
NewTask == [status |-> "PENDING", result |-> "None", error |-> "None",
            progress |-> 0, created_at |-> "set", completed_at |-> "None"]

create_task ==
    /\ Len(tasks) < MaxTasks
    /\ tasks' = Append(tasks, NewTask)
    /\ last_op' = Op("create_task", Len(tasks) + 1, "task", <<>>)
    /\ UNCHANGED <<executing, task_callbacks, cacheVars, notTask>>

\* execute_task up to the first _notify_task_update: the status is set to
\* RUNNING whatever it was, and the observers are called
ExecuteTaskStart(t) ==
    /\ t \in 1..Len(tasks)
    /\ t \notin executing
    /\ tasks' = [tasks EXCEPT ![t].status = "RUNNING"]
    /\ executing' = executing \cup {t}
    /\ last_op' = Op("execute_task", t, "-",
                     _notify_task_update(t, "RUNNING"))
    /\ UNCHANGED <<task_callbacks, cacheVars, notTask>>

\* what the try block of execute_task leaves in the task: _execute_simple_query
\* sets progress 0.5, calls get_project_data, sets progress 0.8 and returns;
\* parsed is false when get_project_data raised
TaskAfterQuery(task, parsed) ==
    IF parsed
    THEN [task EXCEPT !.result = "query_result", !.status = "COMPLETED",
                      !.progress = 10]
    ELSE [task EXCEPT !.progress = 5, !.error = "parse_error",
                      !.status = "FAILED"]

\* the rest of execute_task: the query runs, completed_at is set, the
\* observers are called again
ExecuteTaskFinish(t, parsed) ==
    /\ t \in executing
    /\ tasks' = [tasks EXCEPT ![t] =
                    [TaskAfterQuery(@, parsed) EXCEPT !.completed_at = "set"]]
    /\ executing' = executing \ {t}
    /\ last_op' = Op("execute_task", t, "task",
                     _notify_task_update(t, tasks'[t].status))
    /\ GetProjectData(FALSE, parsed)
    /\ UNCHANGED <<task_callbacks, now, disk, notTask>>

\* a cancel_task that cancels whatever task it finds
CancellableWhenKnown(ts, t) == t \in 1..Len(ts)

\* task_id in self.tasks and task.status in [PENDING, RUNNING]
Cancellable(ts, t) ==
    /\ t \in 1..Len(ts)
    /\ ts[t].status \in {"PENDING", "RUNNING"}

\* cancel_task(task_id), for an id that may be unknown
cancel_task(t) ==
    /\ IF Cancellable(tasks, t)
       THEN /\ tasks' = [tasks EXCEPT ![t].status = "CANCELLED"]
            /\ last_op' = Op("cancel_task", t, "True",
                             _notify_task_update(t, "CANCELLED"))
       ELSE /\ tasks' = tasks
            /\ last_op' = Op("cancel_task", t, "False", <<>>)
    /\ UNCHANGED <<executing, task_callbacks, cacheVars, notTask>>

\* ------------------------------------------------------------- _run_command

\* _run_command calls in one behaviour
MaxCommands == 2

\* the timeout argument, in ticks of the model's clock
Timeouts == {1, 2}

ExitCodes == {0, 1, 2}

\* exceptions the try block can meet that derive from Exception
ExceptionClasses == {"OSError", "UnicodeDecodeError", "TimeoutError"}

NoChild == [state |-> "none", ignores_term |-> FALSE, hangs |-> FALSE,
            code |-> 0, decodable |-> TRUE, term_sent |-> FALSE,
            kill_sent |-> FALSE]

NoResult == [success |-> FALSE, return_code |-> 0, stdout |-> "-",
             stderr |-> "-", seconds |-> 0, duration |-> "-"]

\* TerraformResult(success=return_code == 0, return_code, stdout_str, ...)
ExitResult(code) ==
    [success |-> (code = 0), return_code |-> code, stdout |-> "child_stdout",
     stderr |-> "child_stderr", seconds |-> 0, duration |-> "measured"]

\* the result built in except asyncio.TimeoutError; stderr is
\* f"Command timed out after {timeout} seconds"
TimeoutResult(t) ==
    [success |-> FALSE, return_code |-> -1, stdout |-> "",
     stderr |-> "Command timed out after N seconds", seconds |-> t,
     duration |-> "timeout"]

\* the result built in except Exception as e; stderr is str(e)
ErrorResult(e) ==
    [success |-> FALSE, return_code |-> -1, stdout |-> "", stderr |-> e,
     seconds |-> 0, duration |-> "0"]

\* a try block with the timeout handler only
HandlesTimeoutOnly(e) == e = "TimeoutError"

\* the two handlers of the try block: an exception that is neither a
\* TimeoutError nor an Exception leaves _run_command
Handles(e) == e \in ExceptionClasses

CliReturn(r, why) ==
    /\ cmd_pc' = "returned"
    /\ result' = r
    /\ cause' = why

\* an exception e met in the try block outside the wait
CliException(e) ==
    IF Handles(e)
    THEN CliReturn(ErrorResult(e), e)
    ELSE /\ cmd_pc' = "raised"
         /\ cause' = e
         /\ result' = NoResult

\* _run_command up to the wait: create_subprocess_exec spawns the child or raises
RunCommand(t) ==
    /\ cmd_pc \in {"idle", "returned", "raised"}
    /\ commands < MaxCommands
    /\ commands' = commands + 1
    /\ timeout' = t
    /\ elapsed' = 0
    /\ \/ /\ CliException("OSError")
          /\ child' = NoChild
       \/ /\ cmd_pc' = "communicating"
          /\ \E ig \in BOOLEAN, hg \in BOOLEAN :
                child' = [NoChild EXCEPT !.state = "running",
                                         !.ignores_term = ig, !.hangs = hg]
          /\ cause' = "-"
          /\ result' = NoResult
    /\ UNCHANGED notCli

\* time passes while wait_for(process.communicate(), timeout) is pending
Tick ==
    /\ cmd_pc = "communicating"
    /\ elapsed < timeout
    /\ elapsed' = elapsed + 1
    /\ UNCHANGED <<cmd_pc, child, timeout, cause, result, commands, notCli>>

\* the child exits on its own
ChildExit(code, decodable) ==
    /\ child.state = "running"
    /\ ~child.hangs
    /\ child' = [child EXCEPT !.state = "exited", !.code = code,
                              !.decodable = decodable]
    /\ UNCHANGED <<cmd_pc, timeout, elapsed, cause, result, commands, notCli>>

\* a child that handles SIGTERM dies of it
ChildTerminated ==
    /\ child.state = "running"
    /\ child.term_sent
    /\ ~child.ignores_term
    /\ child' = [child EXCEPT !.state = "exited", !.code = -15]
    /\ UNCHANGED <<cmd_pc, timeout, elapsed, cause, result, commands, notCli>>

\* communicate() returned in time: the output is decoded, the result built
CommunicateDone ==
    /\ cmd_pc = "communicating"
    /\ child.state = "exited"
    /\ IF child.decodable
       THEN CliReturn(ExitResult(child.code), "exit")
       ELSE CliException("UnicodeDecodeError")
    /\ UNCHANGED <<child, timeout, elapsed, commands, notCli>>

\* wait_for raises TimeoutError: process.terminate(), then await process.wait()
TimeoutFires ==
    /\ cmd_pc = "communicating"
    /\ elapsed = timeout
    /\ child.state = "running"
    /\ child' = [child EXCEPT !.term_sent = TRUE]
    /\ cmd_pc' = "reaping"
    /\ cause' = "TimeoutError"
    /\ UNCHANGED <<timeout, elapsed, result, commands, notCli>>

\* await process.wait() returns: the child is gone
WaitReturns ==
    /\ cmd_pc = "reaping"
    /\ child.state = "exited"
    /\ CliReturn(TimeoutResult(timeout), "TimeoutError")
    /\ UNCHANGED <<child, timeout, elapsed, commands, notCli>>

\* await process.wait() raises (the caller's task is cancelled while it
\* waits): the bare except calls process.kill(), and the result is returned
WaitRaises ==
    /\ cmd_pc = "reaping"
    /\ child.state = "running"
    /\ child' = [child EXCEPT !.state = "exited", !.code = -9,
                              !.kill_sent = TRUE]
    /\ CliReturn(TimeoutResult(timeout), "TimeoutError")
    /\ UNCHANGED <<timeout, elapsed, commands, notCli>>

\* the caller's task is cancelled during the wait for communicate():
\* CancelledError is not an Exception
CancelledInCommunicate ==
    /\ cmd_pc = "communicating"
    /\ CliException("CancelledError")
    /\ UNCHANGED <<child, timeout, elapsed, commands, notCli>>

\* ---- show, output, state_list, workspace_list

\* a Python value held in res.stdout: its type and its content
Str(text) == [type |-> "str", value |-> <<text>>]

\* the TerraformResult object _run_command hands to its caller
ResultObject(r, text) == [r EXCEPT !.stdout = Str(text)]

\* texts a child process writes to its standard output
StdoutTexts ==
    {"{}", "[]", "42", "", "Error: no state",
     "aws_instance.web\n\n  aws_s3_bucket.logs \n",
     "  default\n* prod\n"}

\* the results _run_command constructs
Constructed ==
    {ResultObject(ExitResult(code), text) :
        code \in ExitCodes, text \in StdoutTexts}
    \cup {ResultObject(TimeoutResult(t), "") : t \in Timeouts}
    \cup {ResultObject(ErrorResult(e), "") : e \in ExceptionClasses}

\* json.loads(text): the decoded value, or JSONDecodeError
JsonDecode(text) ==
    CASE text = "{}" -> [raised |-> "None", value |-> [type |-> "dict", value |-> <<>>]]
      [] text = "[]" -> [raised |-> "None", value |-> [type |-> "list", value |-> <<>>]]
      [] text = "42" -> [raised |-> "None", value |-> [type |-> "int", value |-> <<"42">>]]
      [] OTHER -> [raised |-> "JSONDecodeError", value |-> Str(text)]

\* what a wrapper hands back: the object it returns or the exception it raises
Returns(res) == [raised |-> "None", result |-> res]
Raises(e) == [raised |-> e, result |-> ResultObject(NoResult, "-")]

\* [line.strip() for line in text.split('\n') if line.strip()]
StrippedLines(text) ==
    LET stripped == [i \in 1..Len(Lines(text)) |-> Strip(Lines(text)[i])]
    IN SelectSeq(stripped, LAMBDA line : line # "")

\* show(plan_file): stdout is replaced by the decoded value when the command
\* succeeded and its output decodes
show(plan_file, res) ==
    IF res.success /\ JsonDecode(res.stdout.value[1]).raised = "None"
    THEN Returns([res EXCEPT
                      !.stdout = JsonDecode(res.stdout.value[1]).value])
    ELSE Returns(res)

\* output(name, json): the parameter json hides the module json, so that
\* json.loads and json.JSONDecodeError are attribute lookups on a bool
output(name, json, res) ==
    IF res.success /\ json
    THEN Raises("AttributeError")
    ELSE Returns(res)

\* state_list(): stdout is replaced by the list of its non-empty lines
state_list(res) ==
    IF res.success
    THEN Returns([res EXCEPT
                      !.stdout = [type |-> "list",
                                  value |-> StrippedLines(res.stdout.value[1])]])
    ELSE Returns(res)

\* workspace_list(): as state_list, a leading '* ' becoming a trailing
\* ' (current)'
workspace_list(res) ==
    LET lines == StrippedLines(res.stdout.value[1])
        workspaces ==
            [i \in 1..Len(lines) |->
                IF Len(lines[i]) >= 2 /\ SubSeq(lines[i], 1, 2) = "* "
                THEN SubSeq(lines[i], 3, Len(lines[i])) \o " (current)"
                ELSE lines[i]]
    IN IF res.success
       THEN Returns([res EXCEPT
                         !.stdout = [type |-> "list", value |-> workspaces]])
       ELSE Returns(res)

\* ---- BatchProcessor

\* batches created in one behaviour
MaxBatches == 2
\* requests in one batch
MaxBatchRequests == 2
\* seconds that pass while batches are created
MaxBatchSeconds == 1

\* f"batch_{int(time.time())}_{len(formatted_requests)}"
BatchId(time, n) == <<"batch", time, n>>

\* self.batches[batch_id]: the dict stored last under this id, 0 if none
Lookup(batch_id) ==
    LET S == {i \in 1..Len(batches) : batches[i].id = batch_id}
    IN IF S = {} THEN 0 ELSE CHOOSE i \in S : \A j \in S : j <= i

\* create_batch(requests) with n requests: the dict is stored under its id
\* and the _process_batch task is created; it starts later
create_batch(n) ==
    /\ Len(batches) < MaxBatches
    /\ batches' = Append(batches,
            [id |-> BatchId(now, n), status |-> "processing",
             total_requests |-> n, completed_requests |-> 0, results |-> 0,
             cancelled_at |-> "unset", completed_at |-> "unset"])
    /\ workers' = Append(workers,
            [pc |-> "created", batch_id |-> BatchId(now, n), batch |-> 0,
             results |-> 0])
    /\ UNCHANGED <<cacheVars, notBatch>>

\* the status, the results and completed_at written after the loop
Completes(b, results) ==
    [b EXCEPT !.results = results, !.status = "completed",
              !.completed_at = "set"]

\* asyncio.sleep(0.5) returns in the loop of _process_batch: the result is
\* appended and completed_requests incremented; after the last request the
\* batch is set to completed
AfterSleep(w) ==
    LET b == workers[w].batch
        results == workers[w].results + 1
        counted == [batches EXCEPT ![b].completed_requests = @ + 1]
    IN IF results < batches[b].total_requests
       THEN /\ workers' = [workers EXCEPT ![w].results = results]
            /\ batches' = counted
       ELSE /\ workers' = [workers EXCEPT ![w].results = results,
                                          ![w].pc = "done"]
            /\ batches' = [counted EXCEPT ![b] = Completes(@, results)]

\* the task of a batch starts: it reads self.batches[batch_id] and suspends
\* in the sleep of the first request
ProcessBatchStart(w) ==
    /\ w \in 1..Len(workers)
    /\ workers[w].pc = "created"
    /\ workers' = [workers EXCEPT ![w].pc = "sleeping",
                                  ![w].batch = Lookup(workers[w].batch_id)]
    /\ UNCHANGED <<batches, cacheVars, notBatch>>

\* the task of a batch resumes from a sleep
ProcessBatchStep(w) ==
    /\ w \in 1..Len(workers)
    /\ workers[w].pc = "sleeping"
    /\ AfterSleep(w)
    /\ UNCHANGED <<cacheVars, notBatch>>

\* cancel_batch(batch_id): only a batch that is processing is cancelled
cancel_batch(batch_id) ==
    /\ Lookup(batch_id) # 0
    /\ batches[Lookup(batch_id)].status = "processing"
    /\ batches' = [batches EXCEPT ![Lookup(batch_id)] =
                      [@ EXCEPT !.status = "cancelled", !.cancelled_at = "set"]]
    /\ UNCHANGED <<workers, cacheVars, notBatch>>

\* ---- the main loop: process_command_async, _handle_response

\* str.startswith(prefix)
StartsWith(s, prefix) ==
    Len(s) >= Len(prefix) /\ SubSeq(s, 1, Len(prefix)) = prefix

\* the agent before the first command
NoAgent == [conversation_history |-> <<>>, running |-> TRUE,
            last_command |-> "-", ai_calls |-> 0, executor_calls |-> 0]

\* _detect_simple_system_command(command)
_detect_simple_system_command(command) ==
    LET command_lower == Strip(Lower(command))
    IN IF command_lower \in {"help", "h"} THEN "help"
       ELSE IF command_lower = "status" THEN "status"
       ELSE IF command_lower \in {"clear", "cls"} THEN "clear"
       ELSE IF command_lower \in {"tokens", "usage"} THEN "tokens"
       ELSE "None"

\* _detect_terraform_command(command): the action of the first pattern the
\* lower-cased command contains
terraform_commands ==
    <<<<"terraform init", "init">>, <<"terraform plan", "plan">>,
      <<"terraform apply", "apply">>, <<"terraform destroy", "destroy">>,
      <<"terraform validate", "validate">>, <<"terraform show", "show">>,
      <<"terraform output", "output">>,
      <<"terraform state list", "state_list">>,
      <<"run terraform plan", "plan">>, <<"run terraform apply", "apply">>,
      <<"run terraform destroy", "destroy">>, <<"run terraform init", "init">>,
      <<"validate configuration", "validate">>,
      <<"validate terraform", "validate">>, <<"show terraform plan", "show">>,
      <<"show terraform state", "state_list">>,
      <<"list terraform state", "state_list">>,
      <<"terraform state", "state_list">> >>

_detect_terraform_command(command) ==
    LET hits == {k \in 1..Len(terraform_commands) :
                    Contains(Lower(command), terraform_commands[k][1])}
    IN IF hits = {} THEN "None"
       ELSE terraform_commands[CHOOSE k \in hits : \A j \in hits : k <= j][2]

\* what the dispatch of a command hands back: the text of
\* _execute_terraform_command or of ai_processor.process_query, or an
\* exception raised on the way
Reply(text) == [kind |-> "reply", text |-> text]
Failure == [kind |-> "raise", text |-> "boom"]

\* process_command_async(command) on agent ag, the dispatch ending as given
process_command_async(command, ag, outcome) ==
    LET command_lower == Lower(command)
        asked == [ag EXCEPT !.conversation_history =
                     Append(@, [role |-> "user", content |-> command])]
        terraform_action == _detect_terraform_command(command)
        dispatched ==
            IF terraform_action # "None"
            THEN [asked EXCEPT !.executor_calls = @ + 1]
            ELSE [asked EXCEPT !.ai_calls = @ + 1]
    IN IF Strip(command) = ""
       THEN [response |-> "", agent |-> ag]
       ELSE IF command_lower \in {"exit", "quit", "q"}
       THEN [response |-> "exit", agent |-> [ag EXCEPT !.running = FALSE]]
       ELSE IF _detect_simple_system_command(command) # "None"
       THEN [response |-> _detect_simple_system_command(command), agent |-> ag]
       ELSE IF StartsWith(command_lower, "export")
               \/ StartsWith(command_lower, "import")
       THEN [response |-> command, agent |-> ag]
       ELSE IF outcome.kind = "raise"
       THEN [response |-> "Error processing command: " \o outcome.text,
             agent |-> dispatched]
       ELSE [response |-> outcome.text,
             agent |-> [dispatched EXCEPT
                 !.last_command =
                     IF terraform_action # "None" THEN command ELSE @,
                 !.conversation_history =
                     Append(@, [role |-> "assistant",
                                content |-> outcome.text])]]

\* _handle_response(response): what the main loop does with the text
\* process_command_async returned
_handle_response(response) ==
    IF response = "exit" THEN "_handle_shutdown"
    ELSE IF response = "help" THEN "show_help"
    ELSE IF response = "clear" THEN "clear_screen"
    ELSE IF response = "status" THEN "show_status"
    ELSE IF response = "tokens" THEN "_handle_token_usage"
    ELSE IF StartsWith(response, "export") THEN "_handle_export"
    ELSE IF StartsWith(response, "import") THEN "_handle_import"
    ELSE IF StartsWith(response, "Error") THEN "show_error"
    ELSE IF response # "" THEN "show_ai_response"
    ELSE "-"

\* ---- OpenAIProcessor.process_request

\* the processor after construction
NoProcessor == [conversation_history |-> <<>>, total_input_tokens |-> 0,
                total_output_tokens |-> 0, invocations |-> 0]

\* a validation that rejects the empty request only
process_requestEmptyOnly(request, st, outcome) ==
    IF request = ""
    THEN [result |-> [messages |-> "Validation Error: Request cannot be empty",
                      error |-> "Request cannot be empty"],
          processor |-> st]
    ELSE IF outcome.kind = "raise"
    THEN [result |-> [messages |-> "Error: " \o outcome.text,
                      error |-> outcome.text],
          processor |-> [st EXCEPT !.invocations = @ + 1]]
    ELSE [result |-> [messages |-> outcome.text, error |-> "-"],
          processor |->
             [st EXCEPT
                 !.invocations = @ + 1,
                 !.total_input_tokens = @ + 1,
                 !.total_output_tokens = @ + 1,
                 !.conversation_history =
                     @ \o <<[role |-> "user", content |-> request],
                            [role |-> "assistant", content |-> outcome.text]>>]]

\* process_request(request): an empty request raises ValueError before the
\* messages are built; the handlers turn every exception into a result
process_request(request, st, outcome) ==
    IF request = "" \/ Strip(request) = ""
    THEN [result |-> [messages |-> "Validation Error: Request cannot be empty",
                      error |-> "Request cannot be empty"],
          processor |-> st]
    ELSE IF outcome.kind = "raise"
    THEN [result |-> [messages |-> "Error: " \o outcome.text,
                      error |-> outcome.text],
          processor |-> [st EXCEPT !.invocations = @ + 1]]
    ELSE [result |-> [messages |-> outcome.text, error |-> "-"],
          processor |->
             [st EXCEPT
                 !.invocations = @ + 1,
                 !.total_input_tokens = @ + 1,
                 !.total_output_tokens = @ + 1,
                 !.conversation_history =
                     @ \o <<[role |-> "user", content |-> request],
                            [role |-> "assistant", content |-> outcome.text]>>]]

\* ---- get_plan_summary

\* a summary that reads the last line holding 'Plan:'
get_plan_summaryLastLine(plan_output) ==
    LET lines == Lines(plan_output)
        hits == {i \in 1..Len(lines) : Contains(lines[i], "Plan:")}
        count(suffix) ==
            IF hits = {} THEN 0
            ELSE LET line == lines[CHOOSE i \in hits : \A j \in hits : i >= j]
                 IN IF SearchNumber(line, suffix) = -1 THEN 0
                    ELSE SearchNumber(line, suffix)
    IN [add |-> count(" to add"), change |-> count(" to change"),
        destroy |-> count(" to destroy")]

\* get_plan_summary(plan_output): the first line holding 'Plan:' is searched
\* for the three counts, then the loop breaks
get_plan_summary(plan_output) ==
    LET lines == Lines(plan_output)
        hits == {i \in 1..Len(lines) : Contains(lines[i], "Plan:")}
        count(suffix) ==
            IF hits = {} THEN 0
            ELSE LET line == lines[CHOOSE i \in hits : \A j \in hits : i <= j]
                 IN IF SearchNumber(line, suffix) = -1 THEN 0
                    ELSE SearchNumber(line, suffix)
    IN [add |-> count(" to add"), change |-> count(" to change"),
        destroy |-> count(" to destroy")]

\* plan outputs get_plan_summary is given; the second component is the
\* summary read by hand
PlanOutputs ==
    {<<"Plan: 3 to add, 1 to change, 0 to destroy.", <<3, 1, 0>> >>,
     <<"", <<0, 0, 0>> >>,
     <<"No changes. Your infrastructure matches the configuration.",
       <<0, 0, 0>> >>,
     <<"Terraform will perform the following actions:\n\nPlan: 12 to add, 0 to change, 2 to destroy.\n",
       <<12, 0, 2>> >>,
     <<"Plan: 2 to destroy.", <<0, 0, 2>> >>,
     <<"Plan: to add, 7 to change", <<0, 7, 0>> >>,
     <<"Note: 5 to add\n  Plan: 1 to add, 0 to change, 0 to destroy.\nPlan: 9 to add, 9 to change, 9 to destroy.",
       <<1, 0, 0>> >>,
     <<"Plan: 10 to add, 20 to change, 30 to destroy.\nPlan: 4 to add",
       <<10, 20, 30>> >>}

\* ---- the plan and init tools: handler, TaskEngine wrapper, TerraformCLI

\* TerraformCLI.plan(detailed_exitcode=...): the arguments of the command
plan(detailed_exitcode) ==
    IF detailed_exitcode THEN <<"plan", "-detailed-exitcode">> ELSE <<"plan">>

\* TerraformCLI.init(upgrade=...): the arguments of the command
init(upgrade) ==
    IF upgrade THEN <<"init", "-upgrade">> ELSE <<"init">>

\* how a run of the binary can end for these arguments: its exit code and
\* its standard output. With -detailed-exitcode a plan exits with 0 when
\* there are no changes, 1 on error and 2 when changes are present;
\* without it a plan that succeeds exits with 0 whatever it found.
Runs(command) ==
    LET changes == {po[1] : po \in {q \in PlanOutputs : q[2] # <<0, 0, 0>>}}
        none == {po[1] : po \in {q \in PlanOutputs : q[2] = <<0, 0, 0>>}}
    IN IF command[1] = "plan"
       THEN IF Len(command) > 1
            THEN [code : {0}, stdout : none]
                    \cup [code : {2}, stdout : changes]
                    \cup [code : {1}, stdout : {"Error: Invalid reference"}]
            ELSE [code : {0}, stdout : none \cup changes]
                    \cup [code : {1}, stdout : {"Error: Invalid reference"}]
       ELSE [code : {0}, stdout : {"Terraform has been successfully initialized!"}]
               \cup [code : {1}, stdout : {"Error: Failed to query providers"}]

\* the dict a TaskEngine wrapper builds from the result of command, with the
\* arguments the binary was run with
WrapperResult(action, command, res, summary) ==
    [action |-> action, success |-> res.success, output |-> res.stdout,
     error |-> IF res.success THEN "None" ELSE res.stderr,
     summary |-> summary, duration |-> res.duration, command |-> command]

\* execute_terraform_plan(detailed), the binary ending as run: the summary
\* is parsed from a successful result only, and is {} otherwise
execute_terraform_plan(detailed, run) ==
    LET res == ResultObject(ExitResult(run.code), run.stdout)
    IN WrapperResult("terraform_plan", plan(detailed), res,
                     IF res.success /\ res.stdout.type = "str"
                     THEN get_plan_summary(res.stdout.value[1])
                     ELSE <<>>)

\* execute_terraform_init(): init is called without arguments
execute_terraform_init(run) ==
    WrapperResult("terraform_init", init(FALSE),
                  ResultObject(ExitResult(run.code), run.stdout), <<>>)

\* _handle_terraform_plan_tool(tool_input)
_handle_terraform_plan_tool(tool_input, run) ==
    execute_terraform_plan(Get(tool_input, "detailed", TRUE), run)

\* _handle_terraform_init_tool(tool_input): tool_input is not read
_handle_terraform_init_tool(tool_input, run) ==
    execute_terraform_init(run)

\* ------------------------------------------------------------ specifications

InitClaude(cs) ==
    /\ callers = cs
    /\ conversation_history = <<>>
    /\ pc = [p \in cs |-> "idle"]
    /\ blocks = [p \in cs |-> <<>>]
    /\ idx = [p \in cs |-> 0]
    /\ tool_results = [p \in cs |-> <<>>]
    /\ depth = [p \in cs |-> 0]
    /\ ret = [p \in cs |-> "none"]
    /\ answer = [p \in cs |-> ""]
    /\ lastSent = <<>>
    /\ queries = 0
    /\ rounds = 0
    /\ dispatch = [p \in cs |-> NoDispatch]
    /\ calls = [p \in cs |-> NoCall]
    /\ tokens = NoTokens
    /\ billed = NoTokens
    /\ terraform_context_cache = "None"
    /\ file = NoFile
    /\ mem = NoMem

InitTask ==
    /\ tasks = <<>>
    /\ executing = {}
    /\ task_callbacks = <<>>
    /\ last_op = NoOp
    /\ project_cache = -1
    /\ cache_timestamp = -1
    /\ now = 0
    /\ disk = 0
    /\ gpd = NoGet

InitCli ==
    /\ cmd_pc = "idle"
    /\ child = NoChild
    /\ timeout = 0
    /\ elapsed = 0
    /\ cause = "-"
    /\ result = NoResult
    /\ commands = 0
    /\ probe = NoProbe

InitBatchProcessor ==
    /\ batches = <<>>
    /\ workers = <<>>

InitHilUpTo(enabled, n) ==
    /\ human_in_the_loop \in enabled
    /\ max_requests = n
    /\ requests = <<>>
    /\ pending_approvals = <<>>
    /\ approval_history = <<>>
    /\ icall = [c \in Interceptors |-> IdleCall]

InitHil(enabled) == InitHilUpTo(enabled, MaxRequests)

\* one operator talking to the agent: calls follow one another; the
\* configuration default human_in_the_loop = True
InitAgent ==
    /\ InitClaude({1})
    /\ registered = tool_handlers
    /\ usages = {CacheWrite}
    /\ streams = "basic"
    /\ lastCli = NoCli
    /\ InitHil({TRUE})
    /\ InitTask
    /\ InitCli
    /\ InitBatchProcessor

NextAgent ==
    \/ \E p \in callers, streaming \in BOOLEAN : StartQuery(p, streaming)
    \/ \E p \in callers : FirstResponse(p)
    \/ \E p \in callers : ToolReturn(p)
    \/ \E p \in callers : StreamDone(p)
    \/ \E p \in callers : StreamToolReturn(p)
    \/ \E p \in callers : StreamFollowUp(p)
    \/ \E a \in TerraformActions : AgentTerraformCommand(a)

SpecAgent == InitAgent /\ [][NextAgent]_vars

\* batch_process_queries: asyncio.gather of process_query(use_streaming=False)
\* calls on one ClaudeProcessor
InitBatch ==
    /\ InitClaude({1, 2})
    /\ registered = tool_handlers
    /\ usages = {CacheWrite}
    /\ streams = "basic"
    /\ lastCli = NoCli
    /\ InitHil({TRUE})
    /\ InitTask
    /\ InitCli
    /\ InitBatchProcessor

NextBatch ==
    \/ \E p \in callers : StartQuery(p, FALSE)
    \/ \E p \in callers : FirstResponse(p)
    \/ \E p \in callers : ToolReturn(p)

SpecBatch == InitBatch /\ [][NextBatch]_vars

\* a ToolInterceptor used by two concurrent callers
InitHilSpec ==
    /\ InitClaude({1})
    /\ registered = tool_handlers
    /\ usages = {CacheWrite}
    /\ streams = "basic"
    /\ lastCli = NoCli
    /\ InitHil(BOOLEAN)
    /\ InitTask
    /\ InitCli
    /\ InitBatchProcessor

NextHil ==
    \/ \E c \in Interceptors, tool \in InterceptedTools, input \in ToolInputs :
            InterceptStart(c, tool, input)
    \/ \E c \in Interceptors :
            \E res \in Resolutions(icall[c].input) : Resolve(c, res[1], res[2])
    \/ \E pattern \in {"None", "destroy", "resources"} :
            auto_approve_pending(pattern)
    \/ clear_pending_approvals

SpecHil == InitHilSpec /\ [][NextHil]_vars

\* approval requests of two callers for the destroy tool, resolved in any
\* order; a third request is made while another is pending
InitIds ==
    /\ InitClaude({1})
    /\ registered = tool_handlers
    /\ usages = {CacheWrite}
    /\ streams = "basic"
    /\ lastCli = NoCli
    /\ InitHilUpTo({TRUE}, MaxRequests + 1)
    /\ InitTask
    /\ InitCli
    /\ InitBatchProcessor

NextIds ==
    \/ \E c \in Interceptors, tool \in InterceptedTools :
            InterceptStart(c, tool, "{}")
    \/ \E c \in Interceptors :
            \E res \in Resolutions(icall[c].input) : Resolve(c, res[1], res[2])

SpecIds == InitIds /\ [][NextIds]_vars

InitTaskSpec ==
    /\ InitClaude({1})
    /\ registered = tool_handlers
    /\ usages = {CacheWrite}
    /\ streams = "basic"
    /\ lastCli = NoCli
    /\ InitHil({TRUE})
    /\ InitTask
    /\ InitCli
    /\ InitBatchProcessor

NextTask ==
    \/ create_task
    \/ \E t \in 1..MaxTasks : ExecuteTaskStart(t)
    \/ \E t \in 1..MaxTasks, parsed \in BOOLEAN : ExecuteTaskFinish(t, parsed)
    \/ \E t \in 1..MaxTasks : cancel_task(t)
    \/ \E callback \in Observers : add_task_callback(callback)

SpecTask == InitTaskSpec /\ [][NextTask]_vars

\* a ClaudeProcessor used on its own: no handler is registered by __init__
InitTools ==
    /\ InitClaude({1})
    /\ registered = {}
    /\ usages = {CacheWrite}
    /\ streams = "basic"
    /\ lastCli = NoCli
    /\ InitHil({TRUE})
    /\ InitTask
    /\ InitCli
    /\ InitBatchProcessor

NextTools ==
    \/ \E p \in callers, streaming \in BOOLEAN : StartQuery(p, streaming)
    \/ \E p \in callers : FirstResponse(p)
    \/ \E p \in callers : ToolReturn(p)
    \/ \E p \in callers : StreamDone(p)
    \/ \E p \in callers : StreamToolReturn(p)
    \/ \E p \in callers : StreamFollowUp(p)
    \/ \E tool_name \in tool_handlers : register_tool_handler(tool_name)

SpecTools == InitTools /\ [][NextTools]_vars

\* the processor of the agent with a model service that reports both kinds
\* of usage
InitTokens ==
    /\ InitClaude({1})
    /\ registered = tool_handlers
    /\ usages = Usages
    /\ streams = "basic"
    /\ lastCli = NoCli
    /\ InitHil({TRUE})
    /\ InitTask
    /\ InitCli
    /\ InitBatchProcessor

NextTokens ==
    \/ \E p \in callers, streaming \in BOOLEAN : StartQuery(p, streaming)
    \/ \E p \in callers : FirstResponse(p)
    \/ \E p \in callers : ToolReturn(p)
    \/ \E p \in callers : StreamDone(p)
    \/ \E p \in callers : StreamToolReturn(p)
    \/ \E p \in callers : StreamFollowUp(p)

SpecTokens == InitTokens /\ [][NextTokens]_vars

\* the processor of the agent, used with streaming (the default of
\* process_query), a subscriber being registered
InitStream ==
    /\ InitClaude({1})
    /\ registered = tool_handlers
    /\ usages = {CacheWrite}
    /\ streams = "rich"
    /\ lastCli = NoCli
    /\ InitHil({TRUE})
    /\ InitTask
    /\ InitCli
    /\ InitBatchProcessor

NextStream ==
    \/ \E p \in callers : StartQuery(p, TRUE)
    \/ \E p \in callers : StreamDone(p)
    \/ \E p \in callers : StreamToolReturn(p)
    \/ \E p \in callers : StreamFollowUp(p)

SpecStream == InitStream /\ [][NextStream]_vars

\* tool names and arguments requires_approval is asked about
GateTools ==
    critical_operations \cup
        {"execute_terraform_plan", "get_resources", "Execute_Terraform_Apply"}

GateInputs ==
    {"{}", "{'workspace': 'prod'}", "{'workspace': 'PRODUCTION'}",
     "{'env': 'staging'}", "{'branch': 'Main'}", "{'mode': 'Live'}",
     "{'ref': 'master'}", "{'product': 'x'}", "{'var_file': 'dev.tfvars'}"}

\* a call of requires_approval(tool_name, tool_input)
RequiresApprovalCall(tool_name, tool_input) ==
    /\ probe' = [op |-> "requires_approval", args |-> <<tool_name, tool_input>>,
                 out |-> requires_approval(tool_name, tool_input)]
    /\ UNCHANGED notProbe

NextGate ==
    \E tool_name \in GateTools, tool_input \in GateInputs :
        RequiresApprovalCall(tool_name, tool_input)

SpecGate == InitHilSpec /\ [][NextGate]_vars

\* one processor whose conversation is exported, imported and cleared
\* between and during its queries
InitMemory ==
    /\ InitClaude({1})
    /\ registered = tool_handlers
    /\ usages = Usages
    /\ streams = "small"
    /\ lastCli = NoCli
    /\ InitHil({TRUE})
    /\ InitTask
    /\ InitCli
    /\ InitBatchProcessor

NextMemory ==
    \/ \E p \in callers : StartQuery(p, TRUE)
    \/ \E p \in callers : StreamDone(p)
    \/ \E p \in callers : StreamToolReturn(p)
    \/ \E p \in callers : StreamFollowUp(p)
    \/ \E p \in callers, project_data \in BOOLEAN : ImageStart(p, project_data)
    \/ \E p \in callers : ImageResponse(p)
    \/ export_conversation
    \/ \E source \in 0..Len(OtherFiles) : import_conversation(source)
    \/ clear_memory

SpecMemory == InitMemory /\ [][NextMemory]_vars

\* streamed messages without tool_use blocks: their text is what
\* _process_with_streaming returns
PlainStreams ==
    {<<>>} \cup SeqsUpTo(TextShapes \cup ThinkingShapes, MaxBlocks)

\* the answers of both variants: the extraction from a response, and the
\* text returned after a stream without tool calls
AnswerCalls ==
    {Call("_extract_text_from_response", <<a[1], a[2]>>,
          _extract_text_from_response(a[1], a[2])) :
        a \in Contents \X BOOLEAN}
    \cup {Call("_process_with_streaming", <<shape, TRUE>>,
               StreamText(ProcessStream(EventsOf(shape), stream_callback))) :
        shape \in PlainStreams}

\* one call of op
AnswerCall(op) ==
    /\ \E c \in AnswerCalls : c.op = op /\ probe' = c
    /\ UNCHANGED notProbe

\* what the operator types at the prompt
Commands ==
    {"", "  ", "exit", "Help", "status", "clear", "tokens",
     "export chat.json", "import chat.json", "terraform plan",
     "what is deployed?"}

\* texts process_query answers with: the model chooses them
ModelAnswers ==
    {Reply(ModelText), Reply("exit"), Reply("export notes.json"),
     Reply("import notes.json"), Reply("status")}

\* texts _execute_terraform_command answers with
TerraformAnswers ==
    {Reply("Terraform Plan Successful"),
     Reply("Error executing terraform command: boom")}

\* how the dispatch of a command can end
Outcomes(command) ==
    IF _detect_terraform_command(command) # "None"
    THEN TerraformAnswers
    ELSE ModelAnswers \cup {Failure}

\* requests given to OpenAIProcessor.process_request
Requests == {"", " ", " \t\n", "list resources"}

\* agents the main loop can hold when a command arrives: the fresh one, and
\* the agent after one dispatched command
Agents ==
    {NoAgent} \cup
    {process_command_async(command, NoAgent, outcome).agent :
        command \in {"terraform plan", "what is deployed?"},
        outcome \in ModelAnswers \cup TerraformAnswers \cup {Failure}}

\* processors a request can find: the fresh one, and the processor after one
\* request
Processors ==
    {NoProcessor} \cup
    {process_request("list resources", NoProcessor, outcome).processor :
        outcome \in {Reply(ModelText), Failure}}

\* the iterations of the main loop, a command being processed and its
\* response handled, and the calls of process_request
MainCalls ==
    UNION {{Call("main", <<command, outcome, ag>>,
                 [response |->
                      process_command_async(command, ag, outcome).response,
                  action |-> _handle_response(
                      process_command_async(command, ag, outcome).response),
                  agent |->
                      process_command_async(command, ag, outcome).agent]) :
              outcome \in Outcomes(command), ag \in Agents} :
           command \in Commands}
    \cup {Call("process_request", <<request, outcome, st>>,
               process_request(request, st, outcome)) :
            request \in Requests, outcome \in {Reply(ModelText), Failure},
            st \in Processors}

\* one step of op
MainCall(op) ==
    /\ \E c \in MainCalls : c.op = op /\ probe' = c
    /\ UNCHANGED notProbe

\* the arguments of a plan and of an init tool call; <<>> is {}
PlanInputs == {<<>>, [detailed |-> TRUE], [detailed |-> FALSE]}
InitInputs == {<<>>, [upgrade |-> TRUE], [upgrade |-> FALSE]}

\* optional arguments of show and output
PlanFiles == {"None", "tfplan"}
OutputNames == {"None", "vpc_id"}

\* the calls of the wrappers on the result of their command, and the calls
\* of get_plan_summary
WrapCalls ==
    {Call("show", <<plan_file, TRUE, res>>, show(plan_file, res)) :
        plan_file \in PlanFiles, res \in Constructed}
    \cup {Call("output", <<a[1], a[2], res>>, output(a[1], a[2], res)) :
        a \in OutputNames \X BOOLEAN, res \in Constructed}
    \cup {Call("state_list", <<"None", FALSE, res>>, state_list(res)) :
        res \in Constructed}
    \cup {Call("workspace_list", <<"None", FALSE, res>>, workspace_list(res)) :
        res \in Constructed}
    \cup {Call("get_plan_summary", <<po[1]>>, get_plan_summary(po[1])) :
        po \in PlanOutputs}
    \cup UNION {{Call("_handle_terraform_plan_tool", <<tool_input, run>>,
                      _handle_terraform_plan_tool(tool_input, run)) :
                    run \in Runs(plan(Get(tool_input, "detailed", TRUE)))} :
                 tool_input \in PlanInputs}
    \cup {Call("_handle_terraform_init_tool", <<tool_input, run>>,
               _handle_terraform_init_tool(tool_input, run)) :
            tool_input \in InitInputs, run \in Runs(<<"init">>)}

\* one call of op
WrapCall(op) ==
    /\ \E c \in WrapCalls : c.op = op /\ probe' = c
    /\ UNCHANGED notProbe

NextCache ==
    \/ \E force_refresh \in BOOLEAN, parse_ok \in BOOLEAN :
            get_project_data(force_refresh, parse_ok)
    \/ \E d \in ClockSteps : AdvanceClock(d)
    \/ EditProject

SpecCache == InitTaskSpec /\ [][NextCache]_vars

NextCli ==
    \/ \E t \in Timeouts : RunCommand(t)
    \/ Tick
    \/ \E code \in ExitCodes, decodable \in BOOLEAN : ChildExit(code, decodable)
    \/ ChildTerminated
    \/ CommunicateDone
    \/ TimeoutFires
    \/ WaitReturns
    \/ WaitRaises
    \/ CancelledInCommunicate

SpecCli == InitTaskSpec /\ [][NextCli]_vars

NextBatchProcessor ==
    \/ \E n \in 1..MaxBatchRequests : create_batch(n)
    \/ \E w \in 1..MaxBatches : ProcessBatchStart(w)
    \/ \E w \in 1..MaxBatches : ProcessBatchStep(w)
    \/ \E i \in 1..MaxBatches : i <= Len(batches) /\ cancel_batch(batches[i].id)
    \/ \E d \in {1} : now < MaxBatchSeconds /\ AdvanceClock(d)

\* batches created, processed in the background and cancelled
SpecBatchProcessor == InitTaskSpec /\ [][NextBatchProcessor]_vars

NextMain ==
    \/ MainCall("main")
    \/ MainCall("process_request")

\* the operator's commands and the requests to the OpenAI processor
SpecMain == InitTaskSpec /\ [][NextMain]_vars

NextAnswer ==
    \/ AnswerCall("_extract_text_from_response")
    \/ AnswerCall("_process_with_streaming")

\* the text handed back as the answer
SpecAnswer == InitTaskSpec /\ [][NextAnswer]_vars

NextWrap ==
    \/ WrapCall("show")
    \/ WrapCall("output")
    \/ WrapCall("state_list")
    \/ WrapCall("workspace_list")
    \/ WrapCall("get_plan_summary")
    \/ WrapCall("_handle_terraform_plan_tool")
    \/ WrapCall("_handle_terraform_init_tool")

\* the post-processing of command results
SpecWrap == InitTaskSpec /\ [][NextWrap]_vars

\* -------------------------------------------------------------- properties

Alternates(rs) ==
    \A i \in 1..Len(rs) : rs[i] = IF i % 2 = 1 THEN "user" ELSE "assistant"

SeqRange(q) == {q[i] : i \in 1..Len(q)}

AllIdle == \A p \in callers : pc[p] = "idle"

\* C1: every assistant turn carrying tool_use blocks is immediately followed
\* by a user turn of tool_result blocks whose tool_use_id values are exactly
\* the ids of the tool_use blocks: same set, one result per id, none missing,
\* none twice (non-streaming and streaming tool handling).
C1_ToolResultsMatchToolUses ==
    \A i \in 1..Len(conversation_history) :
        conversation_history[i].kind = "tool_use" =>
            /\ i < Len(conversation_history)
            /\ LET uses == ToolUseIds(conversation_history[i].content)
                   next == conversation_history[i + 1]
               IN /\ next.role = "user"
                  /\ next.kind = "tool_result"
                  /\ SeqRange(ResultIds(next.content)) = SeqRange(uses)
                  /\ Len(next.content) = Cardinality(SeqRange(uses))
                  /\ DistinctSeq(ResultIds(next.content))

\* C1 witness: the history holds a non-streaming tool turn with two tool_use
\* blocks and a streamed tool turn, each answered
C1_Witness ==
    /\ \E i \in 1..Len(conversation_history) :
        /\ conversation_history[i].kind = "tool_use"
        /\ Len(ToolUseIds(conversation_history[i].content)) = 2
        /\ \E k \in 1..Len(conversation_history[i].content) :
                conversation_history[i].content[k].input = "dict"
        /\ i < Len(conversation_history)
        /\ Len(conversation_history[i + 1].content) = 2
    /\ \E j \in 1..Len(conversation_history) :
        /\ conversation_history[j].kind = "tool_use"
        /\ conversation_history[j].content[1].input = "{}"
        /\ j < Len(conversation_history)
        /\ conversation_history[j + 1].kind = "tool_result"

\* the tool a terraform command belongs to
ToolOfCommand(cmd) ==
    IF cmd = "destroy" THEN "execute_terraform_destroy"
    ELSE IF cmd = "apply" THEN "execute_terraform_apply"
    ELSE "execute_terraform_plan"

\* C2: with human_in_the_loop enabled, a call of intercept_tool_execution for
\* execute_terraform_destroy reaches tool_executor only after request_approval
\* has logged a resolution for it, and a REJECTED resolution leaves
\* tool_executor uninvoked and ends the call with a raised error.
C2_DestroyGatedAndRejectionAborts ==
    \A c \in Interceptors :
        (human_in_the_loop /\ icall[c].tool = "execute_terraform_destroy") =>
            /\ icall[c].executions > 0 =>
                /\ icall[c].req \in SeqRange(approval_history)
                /\ icall[c].status \in {"APPROVED", "MODIFIED"}
            /\ icall[c].status = "REJECTED" =>
                /\ icall[c].executions = 0
                /\ icall[c].pc = "done"
                /\ icall[c].outcome \in {"rejected", "KeyError"}

\* C2 witness: a destroy call was rejected and raised the rejection error
C2_Witness ==
    \E c \in Interceptors :
        /\ human_in_the_loop
        /\ icall[c].tool = "execute_terraform_destroy"
        /\ icall[c].status = "REJECTED"
        /\ icall[c].outcome = "rejected"

\* C3: no apply or destroy is handed to the Command Executor, by a model-issued
\* tool call or by a typed terraform command, unless an approval for that
\* tool has been resolved before (human_in_the_loop enabled).
C3_ApprovalBeforeCommand ==
    (human_in_the_loop /\ lastCli.cmd \in {"apply", "destroy"}) =>
        \E i \in 1..Len(approval_history) :
            /\ requests[approval_history[i]].tool_name = ToolOfCommand(lastCli.cmd)
            /\ requests[approval_history[i]].status \in {"APPROVED", "MODIFIED"}

\* C4: the tool loop stops recursing on its own: with a model service that
\* answers every request with a tool-use response, the nesting of
\* _handle_tool_use stays below a maximum of the code's own, so it never
\* reaches the depth to which the model follows it.
C4_RecursionHaltsAtMaxDepth == \A p \in callers : depth[p] < MaxDepth

\* C5: a task's status moves only PENDING -> RUNNING -> COMPLETED or FAILED,
\* or to CANCELLED from PENDING or RUNNING; a COMPLETED, FAILED or CANCELLED
\* status never changes again.
AllowedTransitions ==
    {<<"PENDING", "RUNNING">>, <<"RUNNING", "COMPLETED">>,
     <<"RUNNING", "FAILED">>, <<"PENDING", "CANCELLED">>,
     <<"RUNNING", "CANCELLED">>}

C5_TaskLifecycle ==
    [][\A t \in 1..Len(tasks) :
          \/ tasks'[t].status = tasks[t].status
          \/ <<tasks[t].status, tasks'[t].status>> \in AllowedTransitions]_vars

\* C6: when process_query has returned the apologetic text after a model
\* service failure, conversation_history still alternates user / assistant
\* and does not end with an unanswered user turn.
C6_FailureLeavesHistorySound ==
    \A p \in callers :
        (pc[p] = "idle" /\ ret[p] = "error" /\ AllIdle) =>
            /\ Alternates(RolesOf(conversation_history))
            /\ conversation_history # <<>> =>
                conversation_history[Len(conversation_history)].role = "assistant"

\* C7: after any sequence of completed process_query calls the roles of
\* conversation_history alternate user, assistant, user, ..., and the only
\* structured turns are an assistant tool_use turn immediately followed by a
\* user tool_result turn.
C7_HistoryAlternates ==
    AllIdle =>
        /\ Alternates(RolesOf(conversation_history))
        /\ \A i \in 1..Len(conversation_history) :
            /\ conversation_history[i].kind = "tool_use" =>
                /\ conversation_history[i].role = "assistant"
                /\ i < Len(conversation_history)
                /\ conversation_history[i + 1].kind = "tool_result"
            /\ conversation_history[i].kind = "tool_result" =>
                /\ conversation_history[i].role = "user"
                /\ i > 1
                /\ conversation_history[i - 1].kind = "tool_use"

\* C8: two concurrent process_query calls on one ClaudeProcessor do not
\* interleave their appends (the turn after a call's user turn is that call's
\* own), and every model request carries a history whose roles alternate.
C8_NoInterleaving ==
    /\ Alternates(lastSent)
    /\ \A i \in 1..(Len(conversation_history) - 1) :
        conversation_history[i].role = "user" =>
            conversation_history[i + 1].owner = conversation_history[i].owner

\* C9: after a timeout _run_command is always on its way to return: while it
\* waits for the terminated child, the child has exited, or can still exit,
\* or has been killed.
C9_ReturnsAfterTimeout ==
    cmd_pc = "reaping" =>
        \/ child.state = "exited"
        \/ child.kill_sent
        \/ ENABLED ChildTerminated
        \/ ENABLED (\E code \in ExitCodes, decodable \in BOOLEAN :
                        ChildExit(code, decodable))

\* C10: _run_command reports every failure as a value: after a timeout the
\* result is success=false, return_code=-1 with the 'timed out' message; after
\* a spawn failure or any other exception it is success=false, return_code=-1
\* with the exception text; after an exit success is (exit code = 0); and no
\* exception other than the cancellation of the caller leaves _run_command.
C10_FailuresAreValues ==
    /\ cmd_pc = "raised" => cause = "CancelledError"
    /\ cmd_pc = "returned" =>
        /\ cause = "TimeoutError" =>
            /\ ~result.success
            /\ result.return_code = -1
            /\ result.stderr = "Command timed out after N seconds"
            /\ result.seconds = timeout
        /\ cause \in {"OSError", "UnicodeDecodeError"} =>
            /\ ~result.success
            /\ result.return_code = -1
            /\ result.stderr = cause
        /\ cause = "exit" =>
            /\ result.success = (child.code = 0)
            /\ result.return_code = child.code

\* C10 witness: a command timed out, the child was told to terminate and the
\* timeout result came back
C10_Witness ==
    /\ cmd_pc = "returned"
    /\ cause = "TimeoutError"
    /\ child.term_sent
    /\ result = TimeoutResult(timeout)

\* C11: a get_project_data(force_refresh=False) call that finds a cache
\* younger than the TTL invokes the parser zero times and returns the cached
\* snapshot, leaving cache and timestamp as they were; a call with
\* force_refresh=True, or after the TTL expired, or with no cache yet, invokes
\* the parser exactly once, and when the parser returned, the cache holds the
\* new snapshot with the time of the call as its timestamp. No call invokes
\* the parser twice.
CacheServed ==
    /\ gpd.parsed = 0
    /\ ~gpd.raised
    /\ gpd.returned = gpd.prev
    /\ project_cache = gpd.prev
    /\ cache_timestamp = gpd.prev_ts

CacheRefreshed ==
    /\ gpd.parsed = 1
    /\ ~gpd.raised =>
        /\ project_cache = gpd.returned
        /\ cache_timestamp = gpd.at

C11_CacheServesWithinTtl ==
    gpd.called =>
        LET cached == gpd.prev # -1 /\ gpd.prev_ts # -1
            age == gpd.at - gpd.prev_ts
        IN /\ (~gpd.force /\ cached /\ age < 60) => CacheServed
           /\ (gpd.force \/ ~cached \/ age > 60) => CacheRefreshed
           /\ CacheServed \/ CacheRefreshed

\* C37: for every task, in every state reachable by create_task,
\* execute_task and cancel_task: progress is within [0, 1] (in tenths here);
\* COMPLETED implies progress 1.0, a result and no error; FAILED implies an
\* error and no result; completed_at is set exactly when the status is
\* COMPLETED or FAILED.
C37_TaskFieldsConsistent ==
    \A t \in 1..Len(tasks) :
        /\ tasks[t].progress \in 0..10
        /\ tasks[t].status = "COMPLETED" =>
              /\ tasks[t].progress = 10
              /\ tasks[t].result # "None"
              /\ tasks[t].error = "None"
        /\ tasks[t].status = "FAILED" =>
              /\ tasks[t].error # "None"
              /\ tasks[t].result = "None"
        /\ tasks[t].completed_at # "None" <=>
              tasks[t].status \in {"COMPLETED", "FAILED"}

C39_CancelledStaysCancelled ==
    /\ [](\A i \in 1..Len(batches) :
            batches[i].completed_requests <= batches[i].total_requests)
    /\ [][\A i \in 1..Len(batches) :
            batches[i].status = "cancelled" =>
                /\ batches'[i].status = "cancelled"
                /\ batches'[i].completed_requests =
                      batches[i].completed_requests]_vars

\* C34: get_project_data serves the cached snapshot only if its age is
\* strictly below the TTL: at an age equal to the TTL, and at every larger
\* age, the parser is invoked again and the timestamp refreshed.
C34_ServedOnlyStrictlyBelowTtl ==
    (gpd.called /\ gpd.prev # -1 /\ gpd.prev_ts # -1) =>
        /\ gpd.parsed = 0 => gpd.at - gpd.prev_ts < _cache_ttl
        /\ gpd.at - gpd.prev_ts >= _cache_ttl =>
              /\ gpd.parsed = 1
              /\ ~gpd.raised => cache_timestamp = gpd.at

\* C11 witness: a non-forced call was served from a cache filled by a forced
\* parse 31 seconds earlier, although the files had changed since
C11_Witness ==
    /\ gpd.called
    /\ ~gpd.force
    /\ gpd.parsed = 0
    /\ gpd.returned # disk
    /\ gpd.prev_ts > 0
    /\ gpd.at - gpd.prev_ts = 31

Running(p) == pc[p] \in {"tool_running", "stream_tool_running"}

UsesOf(bs) == SelectSeq(bs, IsToolUse)

IsToolTurn(i) == conversation_history[i].kind = "tool_use"

\* the latest assistant tool_use turn of call p, 0 when there is none
LastToolTurn(p) ==
    LET S == {i \in 1..Len(conversation_history) :
                IsToolTurn(i) /\ conversation_history[i].owner = p}
    IN IF S = {} THEN 0 ELSE CHOOSE i \in S : \A j \in S : j <= i

\* C12: a tool_use whose name has no registered handler is answered, not
\* raised: _execute_tool decides on the payload {not registered, the missing
\* name, the names registered at that moment}, and the tool loop records that
\* payload as the tool_result of that tool_use and goes on, so that the turn
\* has one result per tool_use.
C12_UnregisteredToolAnswered ==
    /\ \A p \in callers :
        (Running(p) /\ blocks[p][idx[p]].name \notin registered) =>
            dispatch[p] = [kind |-> "not_registered",
                           tool |-> blocks[p][idx[p]].name,
                           available_tools |-> registered]
    /\ \A i \in 1..Len(conversation_history) :
        IsToolTurn(i) =>
            /\ i < Len(conversation_history)
            /\ LET uses == UsesOf(conversation_history[i].content)
                   rs == conversation_history[i + 1].content
               IN /\ Len(rs) = Len(uses)
                  /\ \A k \in 1..Len(rs) :
                        /\ uses[k].name \notin registered =>
                                rs[k].content.kind = "not_registered"
                        /\ rs[k].content.kind = "not_registered" =>
                            /\ rs[k].tool_use_id = uses[k].id
                            /\ rs[k].content.tool = uses[k].name
                            /\ uses[k].name \notin rs[k].content.available_tools
                            /\ rs[k].content.available_tools \subseteq registered

\* C12 witness: a turn whose first tool had no handler while another name
\* was registered, and whose second tool ran, was answered with the final text
C12_Witness ==
    \E i \in 1..Len(conversation_history) :
        /\ IsToolTurn(i)
        /\ i + 2 <= Len(conversation_history)
        /\ Len(conversation_history[i + 1].content) = 2
        /\ conversation_history[i + 1].content[1].content.kind = "not_registered"
        /\ conversation_history[i + 1].content[1].content.available_tools
                = {"get_resources"}
        /\ conversation_history[i + 1].content[2].content.kind = "result"
        /\ conversation_history[i + 2].kind = "text"

\* C13: in the non-streaming tool loop a handler that raised is recorded as
\* the {error, tool} payload of its tool_use; the remaining tool calls of the
\* turn are still executed (one result per tool_use) and the follow-up model
\* request is still made.
C13_HandlerErrorRecorded ==
    \A p \in callers :
        (~calls[p].streaming /\ calls[p].raised # {}) =>
            IF pc[p] = "tool_running"
            THEN \A k \in calls[p].raised :
                    /\ k <= Len(tool_results[p])
                    /\ tool_results[p][k] =
                        ToolResult(UsesOf(blocks[p])[k],
                                   [kind |-> "handler_error",
                                    tool |-> UsesOf(blocks[p])[k].name,
                                    available_tools |-> {}])
            ELSE /\ calls[p].answered
                 /\ calls[p].nreq >= 2
                 /\ LastToolTurn(p) # 0
                 /\ LastToolTurn(p) < Len(conversation_history)
                 /\ LET uses == UsesOf(conversation_history[LastToolTurn(p)].content)
                        rs == conversation_history[LastToolTurn(p) + 1].content
                    IN /\ Len(rs) = Len(uses)
                       /\ Len(calls[p].started) = Len(uses)
                       /\ \A k \in calls[p].raised :
                            /\ k <= Len(rs)
                            /\ rs[k].tool_use_id = uses[k].id
                            /\ rs[k].content.kind = "handler_error"
                            /\ rs[k].content.tool = uses[k].name

\* C13 witness: the first of two handlers raised, the second ran, and the
\* call returned the text of the follow-up response
C13_Witness ==
    \E p \in callers :
        /\ ~calls[p].streaming
        /\ calls[p].raised = {1}
        /\ Len(calls[p].started) = 2
        /\ pc[p] = "idle"
        /\ ret[p] = "text"

\* C18: within one tool turn the handlers run one at a time in the order of
\* the tool calls in the response: while a handler runs, exactly the tool
\* calls before it have been dispatched and have returned, in that order; and
\* a model request is only sent with the results of all tool calls of the
\* turn, in the order of the calls (both tool loops).
C18_HandlersSequentialInOrder ==
    /\ \A p \in callers :
        Running(p) =>
            LET ids == ToolUseIds(blocks[p])
                k == Len(tool_results[p])
            IN /\ k < Len(ids)
               /\ ResultIds(tool_results[p]) = SubSeq(ids, 1, k)
               /\ calls[p].started = SubSeq(ids, 1, k + 1)
               /\ blocks[p][idx[p]].id = ids[k + 1]
    /\ \A i \in 1..Len(conversation_history) :
        IsToolTurn(i) =>
            /\ i < Len(conversation_history)
            /\ ResultIds(conversation_history[i + 1].content)
                    = ToolUseIds(conversation_history[i].content)
    /\ \A i \in 1..Len(lastSent) :
        (i <= Len(conversation_history) /\ IsToolTurn(i)) => i < Len(lastSent)

\* C18 witness: the second of two handlers is running after the first has
\* returned, in the non-streaming loop, after a streamed turn with two tools
C18_Witness ==
    \E p \in callers :
        /\ pc[p] = "tool_running"
        /\ Len(ToolUseIds(blocks[p])) = 2
        /\ Len(tool_results[p]) = 1
        /\ \E i \in 1..Len(conversation_history) :
            /\ IsToolTurn(i)
            /\ conversation_history[i].content[1].input = "{}"
            /\ Len(conversation_history[i].content) = 2

IsToolShape(b) == b.type = "tool_use"

\* the tool calls a well-formed stream announces: one per tool_use block, in
\* block order, its input the fragments of that block joined in order
AnnouncedCalls(shape) ==
    LET tools == SelectSeq(shape, IsToolShape)
    IN [k \in 1..Len(tools) |->
            [type |-> "tool_use", id |-> tools[k].id, name |-> tools[k].name,
             input |-> Join(tools[k].parts)]]

\* a streaming call whose stream has completed
StreamCompleted(p) ==
    /\ calls[p].streaming
    /\ \/ calls[p].shape # <<>>
       \/ pc[p] = "idle" /\ ret[p] = "text"

\* C15: in the streaming variant each tool_use block of a well-formed stream
\* yields exactly one finalized tool call, with the id and name of the block
\* start and with the fragments received between the start and the stop of
\* that block, joined in arrival order, as its input: no fragment goes to
\* another call, no call is finalized twice or dropped.
C15_StreamFinalizesEachToolOnce ==
    \A p \in callers :
        StreamCompleted(p) =>
            calls[p].finalized = AnnouncedCalls(calls[p].shape)

\* C15 witness: a stream with two tool_use blocks, the input of one arriving
\* in two fragments and the other without any, has completed
C15_Witness ==
    \E p \in callers :
        /\ StreamCompleted(p)
        /\ Len(calls[p].shape) = 2
        /\ calls[p].shape[1].parts = <<"{", "}">>
        /\ calls[p].shape[2].type = "tool_use"
        /\ calls[p].shape[2].parts = <<>>
        /\ Len(calls[p].finalized) = 2
        /\ calls[p].finalized[1].input = "{}"
        /\ calls[p].finalized[2].input = ""

\* C16: in the streaming variant, when the stream finalized at least one tool
\* call, every finalized call is executed after the stream has completed and
\* exactly one further, non-streaming request is made, whose text is the
\* final answer; a streaming query makes at most two model requests.
C16_StreamedToolsThenOneFollowUp ==
    \A p \in callers :
        calls[p].streaming =>
            /\ calls[p].nreq <= 2
            /\ (pc[p] = "streaming") => (calls[p].started = <<>>)
            /\ (pc[p] = "idle" /\ calls[p].finalized # <<>>) =>
                    /\ calls[p].started = ToolUseIds(calls[p].finalized)
                    /\ calls[p].nreq = 2
                    /\ (ret[p] = "text") => (answer[p] = ModelText)

\* C36: in the streaming variant every finalized tool call is dispatched to
\* its handler and answered with a tool result in history, a call that
\* received no input fragment included: once the query has returned, the
\* calls started are the finalized ones and a tool_result turn of the query
\* answers each of them.
C36_EmptyInputToolDispatched ==
    \A p \in callers :
        (calls[p].streaming /\ pc[p] = "idle"
            /\ calls[p].finalized # <<>>) =>
            /\ calls[p].started = ToolUseIds(calls[p].finalized)
            /\ \E i \in 1..Len(conversation_history) :
                  /\ conversation_history[i].owner = p
                  /\ conversation_history[i].kind = "tool_result"
                  /\ ResultIds(conversation_history[i].content) =
                        ToolUseIds(calls[p].finalized)

\* the text deltas of a stream, in arrival order
TextDeltas(shape) ==
    LET F[i \in 0..Len(shape)] ==
            IF i = 0 THEN <<>>
            ELSE IF shape[i].type = "text" THEN F[i-1] \o shape[i].parts
            ELSE F[i-1]
    IN F[Len(shape)]

IsTextDelta(t) == t \in {"Hi", "!"}

\* C17: in the streaming variant every text delta is passed to the subscriber
\* in arrival order, and the value process_query returns contains the
\* concatenation of all text deltas that were forwarded.
C17_ForwardedTextIsReturned ==
    \A p \in callers :
        (calls[p].streaming /\ calls[p].shape # <<>>) =>
            /\ SelectSeq(calls[p].forwarded, IsTextDelta)
                    = TextDeltas(calls[p].shape)
            /\ (pc[p] = "idle" /\ ret[p] = "text") =>
                    Contains(answer[p],
                             Join(SelectSeq(calls[p].forwarded, IsTextDelta)))

\* C19: when an approval resolves to PENDING, intercept_tool_execution raises
\* and the tool executor is not invoked for that call.
C19_PendingRaisesWithoutExecution ==
    \A c \in Interceptors :
        icall[c].status = "PENDING" =>
            /\ icall[c].pc = "done"
            /\ icall[c].outcome \in {"pending", "KeyError"}
            /\ icall[c].executions = 0
            /\ icall[c].executed_with = "-"

\* C19 witness: a call whose approval resolved to PENDING has raised the
\* pending error
C19_Witness ==
    \E c \in Interceptors :
        /\ icall[c].status = "PENDING"
        /\ icall[c].pc = "done"
        /\ icall[c].outcome = "pending"
        /\ requests[icall[c].req].status = "PENDING"

MarkedInputs ==
    {"{'workspace': 'prod'}", "{'workspace': 'PRODUCTION'}",
     "{'branch': 'Main'}", "{'mode': 'Live'}", "{'ref': 'master'}",
     "{'product': 'x'}"}

\* C21: with human_in_the_loop enabled requires_approval(tool_name, args) is
\* true exactly when tool_name is one of the apply and destroy operations or
\* the text of args holds a production-like marker; with human_in_the_loop
\* disabled it is false for every tool and every argument.
C21_ApprovalRequiredExactlyForRisk ==
    probe.op = "requires_approval" =>
        (probe.out <=>
            /\ human_in_the_loop
            /\ \/ probe.args[1] \in {"execute_terraform_apply",
                                      "execute_terraform_destroy",
                                      "terraform_apply", "terraform_destroy"}
               \/ probe.args[2] \in MarkedInputs)

\* C21 witness: a read-only tool whose arguments name PRODUCTION in capitals
\* requires approval
C21_Witness ==
    /\ probe.op = "requires_approval"
    /\ probe.args = <<"get_resources", "{'workspace': 'PRODUCTION'}">>
    /\ human_in_the_loop
    /\ probe.out

\* the requests pending_approvals holds
PendingRequests == {pending_approvals[i][2] : i \in 1..Len(pending_approvals)}

Occurrences(seq, x) == Cardinality({i \in 1..Len(seq) : seq[i] = x})

AllNotified(t, st) ==
    /\ Len(last_op.notified) = Len(task_callbacks)
    /\ \A k \in 1..Len(task_callbacks) :
        /\ last_op.notified[k].observer = k
        /\ last_op.notified[k].task = t
        /\ last_op.notified[k].status = st

\* C23: cancel_task(task_id) returns true, sets the status to CANCELLED and
\* notifies the observers exactly when the task exists and is PENDING or
\* RUNNING; for an unknown id or a COMPLETED, FAILED or CANCELLED task it
\* returns false, changes no field of any task and notifies nobody.
C23_CancelOnlyLiveTasks ==
    last_op.name = "cancel_task" =>
        LET t == last_op.task
            before == last_op.before
            live == /\ t \in 1..Len(before)
                    /\ before[t].status \in {"PENDING", "RUNNING"}
        IN IF live
           THEN /\ last_op.returned = "True"
                /\ tasks = [before EXCEPT ![t].status = "CANCELLED"]
                /\ AllNotified(t, "CANCELLED")
           ELSE /\ last_op.returned = "False"
                /\ tasks = before
                /\ last_op.notified = <<>>

\* C23 witness: cancel_task of a COMPLETED task returned false with two
\* observers registered
C23_Witness ==
    /\ last_op.name = "cancel_task"
    /\ last_op.task \in 1..Len(tasks)
    /\ tasks[last_op.task].status = "COMPLETED"
    /\ last_op.returned = "False"
    /\ Len(task_callbacks) = 2

\* C24: every status change made by execute_task (to RUNNING, then to
\* COMPLETED or FAILED) and by cancel_task calls every registered observer;
\* an observer that raises does not keep the others from being called and
\* leaves the status, result and error of the task as the operation set them.
C24_ObserversAllNotified ==
    LET t == last_op.task
        before == last_op.before
    IN /\ (last_op.name = "execute_task" /\ last_op.returned = "-") =>
            /\ AllNotified(t, "RUNNING")
            /\ tasks[t] = [before[t] EXCEPT !.status = "RUNNING"]
       /\ (last_op.name = "execute_task" /\ last_op.returned = "task") =>
            /\ tasks[t].status \in {"COMPLETED", "FAILED"}
            /\ AllNotified(t, tasks[t].status)
            /\ tasks[t].status = "COMPLETED" =>
                /\ tasks[t].result = "query_result"
                /\ tasks[t].error = before[t].error
            /\ tasks[t].status = "FAILED" =>
                /\ tasks[t].error = "parse_error"
                /\ tasks[t].result = before[t].result
       /\ (last_op.name = "cancel_task" /\ last_op.returned = "True") =>
            /\ AllNotified(t, "CANCELLED")
            /\ tasks[t] = [before[t] EXCEPT !.status = "CANCELLED"]

\* C24 witness: a task was completed with a raising observer registered
\* before a quiet one; the first raised, both were called
C24_Witness ==
    /\ last_op.name = "execute_task"
    /\ last_op.returned = "task"
    /\ tasks[last_op.task].status = "COMPLETED"
    /\ task_callbacks = <<"_on_task_update", "quiet">>
    /\ Len(last_op.notified) = 2
    /\ last_op.notified[1].raised
    /\ ~last_op.notified[2].raised

\* the step is an export, import or clear
MemoryStep(op) == mem'.tick # mem.tick /\ mem'.op = op

\* C25: exporting the conversation and importing the written file into a
\* freshly constructed processor (and into any other) reproduces the
\* conversation_history and the four token counters the exporting processor
\* held.
C25_ExportImportRoundTrip ==
    [][(MemoryStep("import") /\ mem'.source = 0) =>
            /\ conversation_history' = mem.exported.conversation_history
            /\ tokens' = mem.exported.tokens]_vars

\* C25 witness: a conversation with a tool turn and non-zero counters has
\* been imported from its export into a processor that was as constructed
C25_Witness ==
    /\ mem.op = "import"
    /\ mem.source = 0
    /\ mem.fresh
    /\ \E i \in 1..Len(conversation_history) :
            conversation_history[i].kind = "tool_result"
    /\ tokens.input > 0
    /\ tokens.cache_read > 0
    /\ tokens.cache_creation > 0

\* C26: import_conversation replaces the in-memory state: afterwards the
\* history, the cached context and the four counters are the values of the
\* imported file (empty history, no context, zero counters for an absent
\* field), whatever the processor held before.
C26_ImportReplaces ==
    [][MemoryStep("import") =>
        LET data == FileOf(mem'.source).data
            usage == IF "token_usage" \in DOMAIN data
                     THEN data.token_usage ELSE <<>>
            counter(key) == IF key \in DOMAIN usage THEN usage[key] ELSE 0
        IN /\ IF "conversation_history" \in DOMAIN data
              THEN /\ Len(conversation_history')
                        = Len(data.conversation_history)
                   /\ \A i \in 1..Len(conversation_history') :
                        DumpTurn(conversation_history'[i])
                            = data.conversation_history[i]
              ELSE conversation_history' = <<>>
           /\ IF "terraform_context" \in DOMAIN data
                    /\ data.terraform_context # "null"
              THEN terraform_context_cache' = data.terraform_context
              ELSE terraform_context_cache' = "None"
           /\ tokens'.input = counter("total_input_tokens")
           /\ tokens'.output = counter("total_output_tokens")
           /\ tokens'.cache_creation = counter("cache_creation_tokens")
           /\ tokens'.cache_read = counter("cache_read_tokens")]_vars

\* C26 witness: a file without history and with one counter only has been
\* imported into a processor that held a conversation
C26_Witness ==
    /\ mem.op = "import"
    /\ mem.source = 3
    /\ ~mem.fresh
    /\ conversation_history = <<>>
    /\ tokens = [NoTokens EXCEPT !.input = 2]
    /\ terraform_context_cache = "other context"

\* C27: no process_query or process_with_image call, successful or failing,
\* lowers one of the four token counters; a counter only goes down in
\* clear_memory, which zeroes all four, or in import_conversation.
C27_CountersOnlyGrow ==
    [][/\ (\/ tokens'.input < tokens.input
           \/ tokens'.output < tokens.output
           \/ tokens'.cache_creation < tokens.cache_creation
           \/ tokens'.cache_read < tokens.cache_read) =>
                (MemoryStep("clear") \/ MemoryStep("import"))
       /\ MemoryStep("clear") => tokens' = NoTokens]_vars

\* C27 witness: two responses have been counted, the later call failed, and
\* nothing was ever cleared or imported
C27_Witness ==
    /\ mem.op = "-"
    /\ tokens.input = 2
    /\ tokens.cache_creation = 1
    /\ tokens.cache_read = 1
    /\ \E p \in callers : pc[p] = "idle" /\ ret[p] = "error"

\* C32: an empty or whitespace-only request is rejected before any dispatch:
\* process_request hands back a validation error, invokes no model and
\* leaves history and counters alone; process_command_async returns the
\* empty string, appends nothing to its history and calls neither the
\* processor nor the command executor.
C32_BlankRejectedBeforeDispatch ==
    /\ (probe.op = "process_request"
            /\ probe.args[1] \in {"", " ", " \t\n"}) =>
          /\ probe.out.result.error = "Request cannot be empty"
          /\ probe.out.result.messages =
                "Validation Error: Request cannot be empty"
          /\ probe.out.processor = probe.args[3]
    /\ (probe.op = "main" /\ probe.args[1] \in {"", "  "}) =>
          /\ probe.out.response = ""
          /\ probe.out.agent = probe.args[3]

\* C32 witness: after a request that was answered, a whitespace-only request
\* is rejected
C32_Witness ==
    /\ probe.op = "process_request"
    /\ probe.args[1] = " \t\n"
    /\ probe.args[3].invocations = 1
    /\ Len(probe.args[3].conversation_history) = 2
    /\ probe.out.result.error = "Request cannot be empty"

\* the system action the operator's command asks for
OperatorAsks(command) ==
    CASE command = "exit" -> "_handle_shutdown"
      [] command = "Help" -> "show_help"
      [] command = "status" -> "show_status"
      [] command = "clear" -> "clear_screen"
      [] command = "tokens" -> "_handle_token_usage"
      [] command = "export chat.json" -> "_handle_export"
      [] command = "import chat.json" -> "_handle_import"
      [] OTHER -> "-"

\* C40: the system actions of the main loop are triggered only by the
\* operator entering the corresponding command; the text of an answer is
\* displayed (as an answer or as an error) and never taken for a command.
C40_SystemActionsOnlyByOperator ==
    probe.op = "main" =>
        IF OperatorAsks(probe.args[1]) # "-"
        THEN probe.out.action = OperatorAsks(probe.args[1])
        ELSE probe.out.action \in {"show_ai_response", "show_error", "-"}

\* the reasoning texts a response or a stream carries
ThinkingTexts == {"Hmm", "Well"}

\* the texts of the text blocks, or of the text deltas, in their order
TextsOf(arg) ==
    LET F[i \in 0..Len(arg)] ==
            IF i = 0 THEN <<>>
            ELSE IF arg[i].type # "text" THEN F[i-1]
            ELSE IF "parts" \in DOMAIN arg[i] THEN F[i-1] \o arg[i].parts
            ELSE Append(F[i-1], arg[i].text)
    IN F[Len(arg)]

\* C31: reasoning content is never part of the returned answer, in the
\* extraction from a response (with or without extended reasoning) and in the
\* streaming variant: the answer holds no reasoning text and is made of the
\* texts of the text blocks, or of the text deltas, only.
C31_ThinkingNeverInAnswer ==
    probe.op \in {"_extract_text_from_response", "_process_with_streaming"} =>
        /\ \A t \in ThinkingTexts : ~Contains(probe.out, t)
        /\ \/ TextsOf(probe.args[1]) = <<>>
              /\ probe.out = "I couldn't generate a response."
           \/ TextsOf(probe.args[1]) # <<>>
              /\ probe.out =
                    (IF probe.op = "_process_with_streaming"
                     THEN Join(TextsOf(probe.args[1]))
                     ELSE JoinLines(TextsOf(probe.args[1])))

\* C31 witness: extended reasoning is enabled, the response holds a thinking
\* block before its text block, and the answer is the text alone
C31_Witness ==
    /\ probe.op = "_extract_text_from_response"
    /\ probe.args[2]
    /\ Len(probe.args[1]) = 2
    /\ probe.args[1][1].type = "thinking"
    /\ probe.args[1][2].type = "text"
    /\ probe.out = "Hi"

\* the wrappers that post-process the result of their command
Wrappers == {"show", "output", "state_list", "workspace_list"}

\* C28: no operation that post-processes a command (show, output,
\* state_list, workspace_list) changes a field of the result _run_command
\* constructed: the object handed back equals the constructed one.
C28_ResultNeverMutated ==
    (probe.op \in Wrappers /\ probe.out.raised = "None") =>
        probe.out.result = probe.args[3]

\* C29: after a successful command, show and output in JSON decode mode do
\* not raise: they hand back the decoded value when stdout is valid JSON and
\* the raw stdout text otherwise, with and without the optional argument.
C29_DecodeNeverRaises ==
    (/\ probe.op \in {"show", "output"}
     /\ probe.args[2]
     /\ probe.args[3].success) =>
        /\ probe.out.raised = "None"
        /\ probe.out.result.stdout = JsonDecode(probe.args[3].stdout.value[1]).value

\* C33: for every plan invocation that ran to completion, with or without
\* the detailed-exit-code flag (exit code 2 reporting changes), the summary
\* of execute_terraform_plan's result is the triple derived from the
\* command's stdout, all zeros when stdout has no Plan line.
C33_PlanResultCarriesSummary ==
    (probe.op = "_handle_terraform_plan_tool"
        /\ probe.args[2].code \in {0, 2}) =>
        \E po \in PlanOutputs :
            /\ po[1] = probe.args[2].stdout
            /\ probe.out.summary = [add |-> po[2][1], change |-> po[2][2],
                                    destroy |-> po[2][3]]

\* C35: the upgrade argument of the execute_terraform_init tool reaches the
\* command line: 'init -upgrade' with upgrade=true, 'init' with
\* upgrade=false or without the argument.
C35_UpgradeReachesCommandLine ==
    probe.op = "_handle_terraform_init_tool" =>
        probe.out.command =
            (IF "upgrade" \in DOMAIN probe.args[1] /\ probe.args[1].upgrade
             THEN <<"init", "-upgrade">>
             ELSE <<"init">>)

\* C30: get_plan_summary(text) returns the counts of the first line of text
\* that holds 'Plan:': the integers before 'to add', 'to change' and 'to
\* destroy' on that line, 0 for each that is missing there, and all zeros
\* when no line holds 'Plan:'.
C30_PlanSummaryOfFirstPlanLine ==
    probe.op = "get_plan_summary" =>
        \E po \in PlanOutputs :
            /\ po[1] = probe.args[1]
            /\ probe.out = [add |-> po[2][1], change |-> po[2][2],
                            destroy |-> po[2][3]]

\* C30 witness: the summary of a text whose second line is the first to hold
\* 'Plan:' and that has a later 'Plan:' line too
C30_Witness ==
    /\ probe.op = "get_plan_summary"
    /\ Len(Lines(probe.args[1])) = 3
    /\ ~Contains(Lines(probe.args[1])[1], "Plan:")
    /\ Contains(Lines(probe.args[1])[3], "Plan:")
    /\ probe.out = [add |-> 1, change |-> 0, destroy |-> 0]

\* C14: the TokenUsage counters hold the usage of every response the model
\* service has given: the initial request, the streaming request and every
\* follow-up request after tool execution, with cache-creation and
\* cache-read tokens in their own counters.
C14_EveryRequestCounted == tokens = billed

====
